---- MODULE Spec2Model ----
(***************************************************************************)
(* Book-shop server (server.js): payment-amount verification and order     *)
(* finalisation.  The model covers the product master cache                *)
(* (BOOKS_MAP_CACHE / refreshBooksCache), the amount validator             *)
(* (validatePaymentAmount), the POST /api/payments/confirm handler with    *)
(* its await points, the orders table with its UNIQUE constraints, the     *)
(* administrators' product update / deactivation handlers (also running    *)
(* concurrently), the caller's order list (GET /api/orders) and the        *)
(* administrator's order status change.                                    *)
(*                                                                         *)
(* JavaScript values: numbers are integers here; the value `undefined`     *)
(* (a missing JSON field) is the integer `undefined` below, which no       *)
(* program value uses; a missing or empty string is "".                    *)
(***************************************************************************)
EXTENDS Integers, Sequences, FiniteSets, TLC

\* ------------------------------------------------------------------ bounds
\* longest line list the validator harness enumerates
MaxItems == 2
\* number of administrator catalog requests in one behaviour
MaxAdminOps == 1

\* ------------------------------------------------------- program constants
FreeShippingThreshold == 30000
ShippingSurcharge == 3000

\* encoding of the JavaScript value undefined (a field missing from the body)
undefined == 0 - 999999

\* ------------------------------------------------------------ value domains
\* concurrent confirmation tasks; the authenticated caller of task r is r
Reqs == {1, 2}
UserOf(r) == r

\* rows of the books table at server start (ids are SERIAL, never 0)
InitBooks ==
  (1 :> [price |-> 15000, is_active |-> TRUE]) @@
  (2 :> [price |-> 29999, is_active |-> TRUE])

\* administrator tasks: catalog requests of different tasks run concurrently;
\* SerialAdmins is the case of one request at a time
Admins == {1, 2}
SerialAdmins == {1}

\* values an administrator sends in PUT /api/admin/books/:id
AdminBookIds == {1, 2, 3}
AdminPrices == {undefined, 15000, 29999}
AdminActive == {"null", "true", "false"}

PaymentKeys == {"pk1", "pk2"}
OrderIds == {"o1", "o2"}

Item(b, p, q) == [bookId |-> b, price |-> p, quantity |-> q]

\* request bodies of the confirmation tasks: (paymentKey, orderId) pairs and
\* (items, amount) pairs; which of them validate depends on the cache
ReqRefs == {<<"pk1", "o1">>, <<"pk2", "o2">>, <<"", "o1">>, <<"pk1", "">>}
ReqItems == {<<Item(1, 15000, 1)>>, <<Item(1, 29999, 1)>>, <<>>}
ReqAmounts == {undefined, 15000, 18000, 32999}

\* a user id a caller may put into the request body (ignored by the handler)
BodyUserIds == {undefined, 1, 2}

\* what the payment provider may answer to a confirm call
TossTotals == {18000, 32999}
\* payment status of a 2xx confirm answer: DONE, or WAITING_FOR_DEPOSIT for a
\* virtual-account payment
TossStatuses == {"DONE", "WAITING_FOR_DEPOSIT"}
TossErrors ==
  {[status |-> 400, code |-> "INVALID_REQUEST", message |-> "bad request"],
   [status |-> 404, code |-> "NOT_FOUND_PAYMENT", message |-> "no payment"]}

\* inputs of the validator harness (SpecV)
VBookIds == {undefined, 1, 2, 3}
VPrices == {15000, 29999}
VQuantities == {undefined, 0 - 1, 0, 1, 2}
VTotals == {1000, 18000, 30000, 32999, 33000, 44999}
VLines == {Item(b, p, q) : b \in VBookIds, p \in VPrices, q \in VQuantities}
VItemLists == UNION {[1..n -> VLines] : n \in 0..MaxItems}
\* books tables of the harness: the initial one, and the one after book 1
\* was repriced and book 2 deactivated
VTables ==
  {InitBooks,
   (1 :> [price |-> 29999, is_active |-> TRUE]) @@
   (2 :> [price |-> 29999, is_active |-> FALSE])}

\* ----------------------------------------------------------------- state
VARIABLES
  books,            \* durable books table: id -> [price, is_active]
  BOOKS_MAP_CACHE,  \* in-memory map of the active products
  admin,            \* the administrators' catalog requests in progress
  req,              \* the confirmation tasks
  orders,           \* durable orders table, in insertion order
  orders_id_seq,    \* the SERIAL sequence behind orders.id
  tossCalls,        \* confirm calls sent to the payment provider
  retired,          \* history: products whose deactivation has been answered
  listing,          \* the last answer of GET /api/orders
  patchRes,         \* the last answer of PATCH /api/admin/orders/:id/status
  vItems,           \* validator harness: line list
  vTotal,           \* validator harness: claimed total
  vResult,          \* validator harness: result of validatePaymentAmount
  vRepeat,          \* validator harness: result of validating a second time
  books_id_seq,     \* the SERIAL sequence behind books.id
  server,           \* startup: its position, the rows its refresh read
  app_users,        \* durable users table, in insertion order
  users_id_seq,     \* the SERIAL sequence behind app_users.id
  reg,              \* the registration tasks
  limiter,          \* the rate limiters' counters for the client address
  login,            \* the last answer of POST /api/login
  meRes,            \* the last answer of the handler of GET /api/me
  denied            \* the last answer a middleware gave instead of a handler

\* the state outside the shop's payment, catalog and order handling
siteRest == <<server, app_users, users_id_seq, reg, limiter, login, meRes,
              denied>>
\* payment, catalog, orders and the validation runs
shopVars == <<books, BOOKS_MAP_CACHE, admin, req, orders, orders_id_seq,
              tossCalls, retired, listing, patchRes, vItems, vTotal, vResult,
              vRepeat>>
\* the part of it a protected request leaves alone
siteQuiet == <<books_id_seq, server, app_users, users_id_seq, reg, login,
               meRes>>
siteVars == <<books_id_seq, server, app_users, users_id_seq, reg, limiter,
              login, meRes, denied>>

vars == <<books, BOOKS_MAP_CACHE, admin, req, orders, orders_id_seq,
          tossCalls, retired, listing, patchRes, vItems, vTotal, vResult,
          vRepeat, books_id_seq, server, app_users, users_id_seq, reg,
          limiter, login, meRes, denied>>

\* -------------------------------------------------------- JavaScript helpers
\* !x for a number-or-undefined
FalsyNum(x) == x = undefined \/ x = 0
\* !s for a string-or-undefined
FalsyStr(s) == s = ""

\* ------------------------------------------------------------ product cache
\* SELECT * FROM books WHERE is_active = true
ActiveRows(tbl) ==
  [b \in {x \in DOMAIN tbl : tbl[x].is_active} |-> tbl[b]]

\* ----------------------------------------------------------- the validator
\* variant: the sign of the quantity is not checked
ItemInvalid_noSign(item) ==
  FalsyNum(item.bookId) \/ FalsyNum(item.quantity)

\* first check of the loop body: required fields
ItemInvalid(item) ==
  FalsyNum(item.bookId) \/ FalsyNum(item.quantity) \/ item.quantity <= 0

\* second check: BOOKS_MAP_CACHE.get(bookId) is undefined
ItemUnknown(item, cache) == item.bookId \notin DOMAIN cache

\* third check: clientPrice !== serverPrice
ItemPriceMismatch(item, cache) == item.price # cache[item.bookId].price

\* variant: the claimed price is not compared with the master price
LineError_noPriceCheck(item, cache) ==
  IF ItemInvalid(item) THEN "invalid_item"
  ELSE IF ItemUnknown(item, cache) THEN "not_exist"
  ELSE ""

\* variant: a product missing from the cache is reported as a price mismatch
LineError_unknownAsMismatch(item, cache) ==
  IF ItemInvalid(item) THEN "invalid_item"
  ELSE IF ItemUnknown(item, cache) \/ ItemPriceMismatch(item, cache)
       THEN "price_mismatch"
  ELSE ""

\* the checks of the loop body in their order; "" when the line passes
LineError(item, cache) ==
  IF ItemInvalid(item) THEN "invalid_item"
  ELSE IF ItemUnknown(item, cache) THEN "not_exist"
  ELSE IF ItemPriceMismatch(item, cache) THEN "price_mismatch"
  ELSE ""

\* variant: the quantity is left out of the line amount
LineAmount_noQuantity(item, cache) == cache[item.bookId].price

\* serverPrice * quantity
LineAmount(item, cache) == cache[item.bookId].price * item.quantity

\* variant: free shipping only above the threshold
ShippingFee_strict(calculatedSubtotal) ==
  IF calculatedSubtotal > FreeShippingThreshold THEN 0 ELSE ShippingSurcharge

\* variant: no shipping fee at all
ShippingFee_none(calculatedSubtotal) == 0

\* calculatedSubtotal >= 30000 ? 0 : 3000
ShippingFee(calculatedSubtotal) ==
  IF calculatedSubtotal >= FreeShippingThreshold THEN 0 ELSE ShippingSurcharge

\* result objects; a result without calculatedTotal carries undefined there
Invalid(err, total) ==
  [valid |-> FALSE, error |-> err, calculatedTotal |-> total]
Valid(total) ==
  [valid |-> TRUE, error |-> "", calculatedTotal |-> total]

\* the for-loop over the lines from line i on, with the subtotal so far:
\* returns at the first failing check of the first failing line
RECURSIVE ValidateFrom(_, _, _, _, _)
ValidateFrom(items, i, calculatedSubtotal, expectedTotal, cache) ==
  IF i > Len(items)
  THEN LET calculatedTotal == calculatedSubtotal + ShippingFee(calculatedSubtotal)
       IN  IF calculatedTotal # expectedTotal
           THEN Invalid("amount_mismatch", calculatedTotal)
           ELSE Valid(calculatedTotal)
  ELSE LET item == items[i]
           error == LineError(item, cache)
       IN  IF error # ""
           THEN Invalid(error, undefined)
           ELSE ValidateFrom(items, i + 1,
                             calculatedSubtotal + LineAmount(item, cache),
                             expectedTotal, cache)

\* variant: the cache is replaced while the lines are being priced: the
\* first line is looked up in the cache, the later ones in the rows a
\* refresh would load
validatePaymentAmount_refreshedBetweenLines(items, expectedTotal) ==
  IF Len(items) = 0
  THEN Invalid("no_items", undefined)
  ELSE LET fresh == ActiveRows(books)
           mixed == [b \in DOMAIN BOOKS_MAP_CACHE \cap DOMAIN fresh |->
                       IF b = items[1].bookId THEN BOOKS_MAP_CACHE[b]
                       ELSE fresh[b]]
       IN  ValidateFrom(items, 1, 0, expectedTotal, mixed)

\* validatePaymentAmount(items, expectedTotal), reading the global cache
validatePaymentAmount(items, expectedTotal) ==
  IF Len(items) = 0
  THEN Invalid("no_items", undefined)
  ELSE ValidateFrom(items, 1, 0, expectedTotal, BOOKS_MAP_CACHE)

\* ------------------------------------------------------------- responses
\* an HTTP response: status code and JSON body (keys = the fields present)
NoResponse ==
  [status |-> 0, keys |-> {}, error |-> "", detail |-> "", code |-> "",
   message |-> "", orderId |-> "", totalAmount |-> undefined]

\* res.status(400).json({ error: 'paymentKey, orderId, amount ...' })
MissingFieldsResponse ==
  [NoResponse EXCEPT !.status = 400, !.keys = {"error"},
                     !.error = "fields_required"]

\* res.status(400).json({ error: '... items required' })
MissingItemsResponse ==
  [NoResponse EXCEPT !.status = 400, !.keys = {"error"},
                     !.error = "items_required"]

\* variant: the validator's reason is not passed on
ValidationFailedResponse_noDetail(validation) ==
  [NoResponse EXCEPT !.status = 400, !.keys = {"error"},
                     !.error = "amount_not_correct"]

\* res.status(400).json({ error: <generic>, detail: validation.error })
ValidationFailedResponse(validation) ==
  [NoResponse EXCEPT !.status = 400, !.keys = {"error", "detail"},
                     !.error = "amount_not_correct",
                     !.detail = validation.error]

\* variant: every provider failure is answered 400
ProviderFailedResponse_always400(tossResult) ==
  [NoResponse EXCEPT !.status = 400,
                     !.keys = {"error", "code", "message"},
                     !.error = "confirm_failed",
                     !.code = tossResult.code,
                     !.message = tossResult.message]

\* res.status(tossResponse.status).json({ error, code, message })
ProviderFailedResponse(tossResult) ==
  [NoResponse EXCEPT !.status = tossResult.http,
                     !.keys = {"error", "code", "message"},
                     !.error = "confirm_failed",
                     !.code = tossResult.code,
                     !.message = tossResult.message]

\* res.json({ message, orderId, totalAmount, method, status, approvedAt })
SuccessResponse(tossResult) ==
  [NoResponse EXCEPT !.status = 200,
                     !.keys = {"message", "orderId", "totalAmount", "method",
                               "status", "approvedAt"},
                     !.message = "payment_completed",
                     !.orderId = tossResult.orderId,
                     !.totalAmount = tossResult.totalAmount]

\* variant: the catch block answers like a failed validation
ServerErrorResponse_asValidationFailure ==
  [NoResponse EXCEPT !.status = 400, !.keys = {"error", "detail"},
                     !.error = "amount_not_correct",
                     !.detail = "server_error"]

\* catch (error): res.status(500).json({ error: <server error> })
ServerErrorResponse ==
  [NoResponse EXCEPT !.status = 500, !.keys = {"error"},
                     !.error = "server_error"]

\* ------------------------------------------------- users, tokens, sign-in
\* a password, by the properties validatePasswordStrength looks at
Password(len, upper, lower, digit, special) ==
  [length |-> len, hasUpperCase |-> upper, hasLowerCase |-> lower,
   hasNumber |-> digit, hasSpecialChar |-> special]
NoPassword == Password(0, FALSE, FALSE, FALSE, FALSE)
StrongPassword == Password(9, TRUE, TRUE, TRUE, TRUE)
OtherPassword == Password(12, TRUE, TRUE, TRUE, TRUE)

\* validatePasswordStrength(password): hasLowerCase is computed and not
\* looked at
validatePasswordStrength(password) ==
  IF password.length < 8 THEN [valid |-> FALSE, error |-> "too_short"]
  ELSE IF ~password.hasUpperCase THEN [valid |-> FALSE, error |-> "no_upper"]
  ELSE IF ~password.hasNumber THEN [valid |-> FALSE, error |-> "no_number"]
  ELSE IF ~password.hasSpecialChar
  THEN [valid |-> FALSE, error |-> "no_special"]
  ELSE [valid |-> TRUE, error |-> ""]

\* validator.isEmail(email), on the addresses of the model
isEmail(email) == email \notin {"", "not-an-email"}

\* bcrypt.hash(password, 10): the stored value is not the password
Hash(password) == [bcrypt |-> password]
\* variant: the stored value is compared with the password itself
Compare_plain(password, hash) == hash = password

\* bcrypt.compare(password, hash)
Compare(password, hash) == hash = Hash(password)

\* the users registered before the behaviours start (ids 1 and 2 are the
\* callers of the confirmation tasks)
InitUsers ==
  << [id |-> 1, email |-> "a@shop", password |-> Hash(StrongPassword)],
     [id |-> 2, email |-> "b@shop", password |-> Hash(StrongPassword)] >>

NoRes == [http |-> 0, error |-> ""]
Regs == {1, 2}
IdleReg == [pc |-> "idle", email |-> "", password |-> NoPassword, res |-> NoRes]

\* a bearer token: absent, signed by the server for a user (jwt.sign with
\* JWT_SECRET), or one jwt.verify refuses (bad signature, expired)
NoToken == [kind |-> "none", id |-> 0]
SignedToken(id) == [kind |-> "signed", id |-> id]
ForgedToken(id) == [kind |-> "forged", id |-> id]
ExpiredToken(id) == [kind |-> "expired", id |-> id]

\* the last answer of POST /api/login with the credentials it was sent;
\* `checked` records that the handler looked the credentials up
NoLogin ==
  [http |-> 0, error |-> "", token |-> NoToken, checked |-> FALSE,
   email |-> "", password |-> NoPassword]
NoMe == [http |-> 0, error |-> "", id |-> 0, token |-> NoToken]
NoDenial == [endpoint |-> "", http |-> 0, error |-> "", token |-> NoToken]

\* rateLimit({ windowMs: 15 * 60 * 1000, max }): the requests of one client
\* address are counted per window (all requests of the model come from one
\* address); limiter[l] is the count of the current window
LoginMax == 5
PaymentMax == 10
Limiters == {"login", "payment"}
LimiterMax(l) == IF l = "login" THEN LoginMax ELSE PaymentMax
NoHits == [l \in Limiters |-> 0]

\* the limiter counts the request; the count is kept up to max + 1, beyond
\* which every request is refused alike
Hit(l) == [limiter EXCEPT ![l] = IF @ > LimiterMax(l) THEN @ ELSE @ + 1]
\* the request is refused when it is counted beyond max
Limited(l) == Hit(l)[l] > LimiterMax(l)

\* jwt.verify(token, JWT_SECRET) calls back with err
VerifyError(token) == token.kind # "signed"

\* authenticateToken's answer for a token it refuses
Denial(endpoint, token) ==
  [endpoint |-> endpoint, http |-> 401, token |-> token,
   error |-> IF token = NoToken THEN "login_required" ELSE "invalid_token"]
\* a limiter's answer (status 429 with its `message`)
TooMany(endpoint, token) ==
  [endpoint |-> endpoint, http |-> 429, token |-> token,
   error |-> IF endpoint = "login" THEN "too_many_login_attempts"
                                   ELSE "too_many_payment_requests"]

\* ------------------------------------------------ the confirmation handler
NoValidation == [valid |-> FALSE, error |-> "", calculatedTotal |-> undefined]
NoToss ==
  [http |-> 0, orderId |-> "", paymentKey |-> "", totalAmount |-> undefined,
   status |-> "", code |-> "", message |-> ""]

IdleReq ==
  [pc |-> "idle", paymentKey |-> "", orderId |-> "", amount |-> undefined,
   userId |-> undefined, token |-> NoToken, items |-> <<>>, validation |-> NoValidation, tossResult |-> NoToss,
   res |-> NoResponse, hist |-> <<>>, cacheAt |-> <<>>]

\* variant: the claimed amount is not required
InputsMissing_amountOptional(paymentKey, orderId, amount) ==
  FalsyStr(paymentKey) \/ FalsyStr(orderId)

\* if (!paymentKey || !orderId || !amount)
InputsMissing(paymentKey, orderId, amount) ==
  FalsyStr(paymentKey) \/ FalsyStr(orderId) \/ FalsyNum(amount)

\* if (!items || !Array.isArray(items) || items.length === 0)
ItemsMissing(items) == Len(items) = 0

\* variant: the provider is sent the amount without the shipping surcharge
TossCall_withoutShipping(r, paymentKey, orderId, amount) ==
  [by |-> r, paymentKey |-> paymentKey, orderId |-> orderId,
   amount |-> amount - ShippingSurcharge]

\* the body sent to the provider: { paymentKey, orderId, amount }
TossCall(r, paymentKey, orderId, amount) ==
  [by |-> r, paymentKey |-> paymentKey, orderId |-> orderId, amount |-> amount]

\* variant: the owner is taken from the body's userId when it is present
OrderRow_ownerFromBody(r, id, tossResult, items, validation) ==
  [id |-> id,
   user_id |-> IF req[r].userId # undefined THEN req[r].userId ELSE UserOf(r),
   order_id |-> tossResult.orderId,
   payment_key |-> tossResult.paymentKey,
   total_amount |-> tossResult.totalAmount,
   status |-> tossResult.status,
   items |-> items,
   by |-> r,
   validated |-> validation.calculatedTotal]

\* the row of INSERT INTO orders (...) VALUES ($1 .. $9, NOW());
\* `by` and `validated` are history fields: the task that inserted the row
\* and the total its validation computed.  req[r].hist (the states the task
\* went through) and req[r].cacheAt (the cache its validation read) are
\* history fields too.
OrderRow(r, id, tossResult, items, validation) ==
  [id |-> id,
   user_id |-> UserOf(r),
   order_id |-> tossResult.orderId,
   payment_key |-> tossResult.paymentKey,
   total_amount |-> tossResult.totalAmount,
   status |-> tossResult.status,
   items |-> items,
   by |-> r,
   validated |-> validation.calculatedTotal]

\* variant: payment_key is not declared UNIQUE
UniqueViolation_orderIdOnly(tbl, row) ==
  \E i \in 1..Len(tbl) : tbl[i].order_id = row.order_id

\* order_id VARCHAR(255) UNIQUE NOT NULL, payment_key VARCHAR(255) UNIQUE
UniqueViolation(tbl, row) ==
  \E i \in 1..Len(tbl) :
    \/ tbl[i].order_id = row.order_id
    \/ tbl[i].payment_key = row.payment_key

\* The handler of POST /api/payments/confirm up to its first await: the
\* input checks, the validation and, when it accepts, the start of the
\* provider call.  The handler destructures
\* paymentKey, orderId, amount and items from the body; any other body field
\* (userId here) is carried by the request and never read.
ConfirmHandler(r, token, paymentKey, orderId, amount, items, userId) ==
  LET body == [req[r] EXCEPT !.paymentKey = paymentKey, !.orderId = orderId,
                             !.amount = amount, !.items = items,
                             !.userId = userId, !.token = token,
                             !.cacheAt = BOOKS_MAP_CACHE]
      validation == validatePaymentAmount(items, amount)
  IN
  IF InputsMissing(paymentKey, orderId, amount)
  THEN /\ req' = [req EXCEPT ![r] =
              [body EXCEPT !.pc = "REJECTED", !.res = MissingFieldsResponse,
                           !.hist = <<"RECEIVED", "REJECTED">>]]
       /\ UNCHANGED tossCalls
  ELSE IF ItemsMissing(items)
  THEN /\ req' = [req EXCEPT ![r] =
              [body EXCEPT !.pc = "REJECTED", !.res = MissingItemsResponse,
                           !.hist = <<"RECEIVED", "REJECTED">>]]
       /\ UNCHANGED tossCalls
  ELSE IF ~validation.valid
  THEN /\ req' = [req EXCEPT ![r] =
              [body EXCEPT !.pc = "REJECTED", !.validation = validation,
                           !.res = ValidationFailedResponse(validation),
                           !.hist = <<"RECEIVED", "VALIDATING", "REJECTED">>]]
       /\ UNCHANGED tossCalls
  ELSE /\ req' = [req EXCEPT ![r] =
              [body EXCEPT !.pc = "PROVIDER_CONFIRMING",
                           !.validation = validation,
                           !.hist = <<"RECEIVED", "VALIDATING",
                                      "PROVIDER_CONFIRMING">>]]
       /\ tossCalls' = tossCalls \cup
                         {TossCall(r, paymentKey, orderId, amount)}

\* variant: a token is only required to be present, jwt.verify's error is
\* ignored
PaymentsConfirm_verifyIgnored(r, token, paymentKey, orderId, amount, items, userId) ==
  /\ req[r].pc = "idle"
  /\ limiter' = Hit("payment")
  /\ IF Limited("payment")
     THEN /\ denied' = TooMany("confirm", token)
          /\ UNCHANGED <<req, tossCalls>>
     ELSE IF token = NoToken
     THEN /\ denied' = Denial("confirm", token)
          /\ UNCHANGED <<req, tossCalls>>
     ELSE /\ UNCHANGED denied
          /\ ConfirmHandler(r, token, paymentKey, orderId, amount, items,
                            userId)
  /\ UNCHANGED <<books, BOOKS_MAP_CACHE, admin, orders, orders_id_seq,
                 retired, listing, patchRes, vItems, vTotal, vResult, vRepeat,
                 siteQuiet>>

\* POST /api/payments/confirm from the arrival of the request up to the
\* handler's first await: paymentLimiter (429 beyond the limit), then
\* authenticateToken (401 without a token or with one jwt.verify refuses),
\* then the handler.  A request answered by a middleware leaves the task
\* idle; its answer is in `denied`.
PaymentsConfirm(r, token, paymentKey, orderId, amount, items, userId) ==
  /\ req[r].pc = "idle"
  /\ limiter' = Hit("payment")
  /\ IF Limited("payment")
     THEN /\ denied' = TooMany("confirm", token)
          /\ UNCHANGED <<req, tossCalls>>
     ELSE IF token = NoToken \/ VerifyError(token)
     THEN /\ denied' = Denial("confirm", token)
          /\ UNCHANGED <<req, tossCalls>>
     ELSE /\ UNCHANGED denied
          /\ ConfirmHandler(r, token, paymentKey, orderId, amount, items,
                            userId)
  /\ UNCHANGED <<books, BOOKS_MAP_CACHE, admin, orders, orders_id_seq,
                 retired, listing, patchRes, vItems, vTotal, vResult, vRepeat,
                 siteQuiet>>

\* The provider answers 2xx: tossResult holds its canonical fields and the
\* handler goes on to the insert.
TossConfirmed(r, orderId, paymentKey, totalAmount, status) ==
  /\ req[r].pc = "PROVIDER_CONFIRMING"
  /\ req' = [req EXCEPT ![r].pc = "PERSISTING",
                        ![r].tossResult =
                           [NoToss EXCEPT !.http = 200, !.orderId = orderId,
                                          !.paymentKey = paymentKey,
                                          !.totalAmount = totalAmount,
                                          !.status = status],
                        ![r].hist = Append(@, "PERSISTING")]
  /\ UNCHANGED <<books, BOOKS_MAP_CACHE, admin, orders, orders_id_seq,
                 tossCalls, retired, listing, patchRes, vItems, vTotal, vResult, vRepeat, siteVars>>

\* variant: the failure branch does not return, the handler goes on to the
\* insert with the error body as tossResult
TossRejected_noReturn(r, err) ==
  /\ req[r].pc = "PROVIDER_CONFIRMING"
  /\ req' = [req EXCEPT ![r].pc = "PERSISTING",
                        ![r].tossResult =
                           [NoToss EXCEPT !.http = err.status,
                                          !.code = err.code,
                                          !.message = err.message],
                        ![r].hist = Append(@, "PERSISTING")]
  /\ UNCHANGED <<books, BOOKS_MAP_CACHE, admin, orders, orders_id_seq,
                 tossCalls, retired, listing, patchRes, vItems, vTotal, vResult, vRepeat, siteVars>>

\* The provider answers with an error status: if (!tossResponse.ok)
TossRejected(r, err) ==
  /\ req[r].pc = "PROVIDER_CONFIRMING"
  /\ LET tossResult == [NoToss EXCEPT !.http = err.status, !.code = err.code,
                                      !.message = err.message]
     IN  req' = [req EXCEPT ![r].pc = "PROVIDER_FAILED",
                            ![r].tossResult = tossResult,
                            ![r].res = ProviderFailedResponse(tossResult),
                            ![r].hist = Append(@, "PROVIDER_FAILED")]
  /\ UNCHANGED <<books, BOOKS_MAP_CACHE, admin, orders, orders_id_seq,
                 tossCalls, retired, listing, patchRes, vItems, vTotal, vResult, vRepeat, siteVars>>

\* fetch() or tossResponse.json() throws (network error, invalid JSON)
TossThrows(r) ==
  /\ req[r].pc = "PROVIDER_CONFIRMING"
  /\ req' = [req EXCEPT ![r].pc = "ERROR",
                        ![r].res = ServerErrorResponse,
                        ![r].hist = Append(@, "ERROR")]
  /\ UNCHANGED <<books, BOOKS_MAP_CACHE, admin, orders, orders_id_seq,
                 tossCalls, retired, listing, patchRes, vItems, vTotal, vResult, vRepeat, siteVars>>

\* await pool.query(INSERT INTO orders ...): the database executes the
\* insert atomically; a UNIQUE violation makes the query throw (caught at the
\* request boundary), otherwise the row is stored and the success response
\* is sent.  The sequence value is consumed in both cases.
InsertOrder(r) ==
  /\ req[r].pc = "PERSISTING"
  /\ LET row == OrderRow(r, orders_id_seq, req[r].tossResult, req[r].items,
                         req[r].validation)
     IN  IF UniqueViolation(orders, row)
         THEN /\ UNCHANGED orders
              /\ req' = [req EXCEPT ![r].pc = "ERROR",
                                    ![r].res = ServerErrorResponse,
                                    ![r].hist = Append(@, "ERROR")]
         ELSE /\ orders' = Append(orders, row)
              /\ req' = [req EXCEPT ![r].pc = "COMPLETED",
                                    ![r].res = SuccessResponse(req[r].tossResult),
                                    ![r].hist = Append(@, "COMPLETED")]
  /\ orders_id_seq' = orders_id_seq + 1
  /\ UNCHANGED <<books, BOOKS_MAP_CACHE, admin, tossCalls,
                 retired, listing, patchRes, vItems, vTotal, vResult, vRepeat, siteVars>>

\* the insert fails for another reason (connection lost, storage error)
InsertThrows(r) ==
  /\ req[r].pc = "PERSISTING"
  /\ req' = [req EXCEPT ![r].pc = "ERROR",
                        ![r].res = ServerErrorResponse,
                        ![r].hist = Append(@, "ERROR")]
  /\ UNCHANGED <<books, BOOKS_MAP_CACHE, admin, orders, orders_id_seq,
                 tossCalls, retired, listing, patchRes, vItems, vTotal, vResult, vRepeat, siteVars>>

\* -------------------------------------------------- administrator: products
\* UPDATE books SET price = COALESCE($3, price),
\*                  is_active = COALESCE($10, is_active) WHERE id = $11
UpdatedBook(row, price, is_active) ==
  [price |-> IF price = undefined THEN row.price ELSE price,
   is_active |-> IF is_active = "null" THEN row.is_active
                 ELSE is_active = "true"]

\* `ok` is the status the request answers when it succeeds; `before` is a
\* history field: the table and the cache when the request arrived
IdleAdmin ==
  [pc |-> "idle", rows |-> <<>>, ops |-> 0, status |-> 0, deactivates |-> 0,
   ok |-> 200, before |-> <<>>]

\* PUT /api/admin/books/:id up to the refresh: 404 for an unknown id,
\* otherwise the UPDATE.  `deactivates` is a history field: the product the
\* request sets inactive (0 when none).
AdminPutBook(a, bookId, price, is_active) ==
  /\ admin[a].pc = "idle"
  /\ admin[a].ops < MaxAdminOps
  /\ IF bookId \notin DOMAIN books
     THEN /\ admin' = [admin EXCEPT ![a].ops = @ + 1, ![a].ok = 200,
                                    ![a].before = <<books, BOOKS_MAP_CACHE>>, ![a].status = 404,
                                    ![a].deactivates = 0]
          /\ UNCHANGED <<books, retired>>
     ELSE /\ books' = [books EXCEPT ![bookId] = UpdatedBook(@, price, is_active)]
          /\ admin' = [admin EXCEPT ![a].ops = @ + 1, ![a].ok = 200,
                                    ![a].before = <<books, BOOKS_MAP_CACHE>>,
                                    ![a].pc = "refresh_query",
                                    ![a].status = 0,
                                    ![a].deactivates =
                                       IF is_active = "false" THEN bookId ELSE 0]
          /\ retired' = IF is_active = "true" THEN retired \ {bookId}
                        ELSE retired
  /\ UNCHANGED <<BOOKS_MAP_CACHE, req, orders, orders_id_seq, tossCalls,
                 listing, patchRes, vItems, vTotal, vResult, vRepeat, siteVars>>

\* DELETE /api/admin/books/:id up to the refresh: soft delete
AdminDeleteBook(a, bookId) ==
  /\ admin[a].pc = "idle"
  /\ admin[a].ops < MaxAdminOps
  /\ IF bookId \notin DOMAIN books
     THEN /\ admin' = [admin EXCEPT ![a].ops = @ + 1, ![a].ok = 200,
                                    ![a].before = <<books, BOOKS_MAP_CACHE>>, ![a].status = 404,
                                    ![a].deactivates = 0]
          /\ UNCHANGED books
     ELSE /\ books' = [books EXCEPT ![bookId].is_active = FALSE]
          /\ admin' = [admin EXCEPT ![a].ops = @ + 1, ![a].ok = 200,
                                    ![a].before = <<books, BOOKS_MAP_CACHE>>,
                                    ![a].pc = "refresh_query",
                                    ![a].status = 0,
                                    ![a].deactivates = bookId]
  /\ UNCHANGED <<BOOKS_MAP_CACHE, req, orders, orders_id_seq, tossCalls,
                 retired, listing, patchRes, vItems, vTotal, vResult, vRepeat, siteVars>>

\* values an administrator sends as the price of a new product
NewPrices == {undefined, 12000}

\* POST /api/admin/books up to the refresh: 400 when a required field (the
\* price here) is missing, otherwise the INSERT with the next id of the
\* sequence
AdminPostBook(a, price) ==
  /\ admin[a].pc = "idle"
  /\ admin[a].ops < MaxAdminOps
  /\ IF FalsyNum(price)
     THEN /\ admin' = [admin EXCEPT ![a].ops = @ + 1, ![a].ok = 201,
                                    ![a].before = <<books, BOOKS_MAP_CACHE>>,
                                    ![a].status = 400, ![a].deactivates = 0]
          /\ UNCHANGED <<books, books_id_seq>>
     ELSE /\ books' = books @@
                        (books_id_seq :> [price |-> price, is_active |-> TRUE])
          /\ books_id_seq' = books_id_seq + 1
          /\ admin' = [admin EXCEPT ![a].ops = @ + 1, ![a].ok = 201,
                                    ![a].before = <<books, BOOKS_MAP_CACHE>>,
                                    ![a].pc = "refresh_query",
                                    ![a].status = 0, ![a].deactivates = 0]
  /\ UNCHANGED <<BOOKS_MAP_CACHE, req, orders, orders_id_seq, tossCalls,
                 retired, listing, patchRes, vItems, vTotal, vResult, vRepeat,
                 siteRest>>

\* the smallest number of collected books the seeding goes on with
SeedMinimum == 10
\* numbers of books the seeding collects from Google Books
SeedCollected == {9, 10}
\* the table after DELETE FROM books, ALTER SEQUENCE ... RESTART WITH 1 and
\* n INSERTs (is_active defaults to true)
SeedBooks(n) == [b \in 1..n |-> [price |-> 10000 + 1000 * b, is_active |-> TRUE]]

\* POST /api/admin/books/seed-google up to the refresh: 500 when fewer than
\* 10 books were collected; otherwise the transaction BEGIN ... COMMIT, which
\* replaces the table as one step (committed = TRUE) or fails and is rolled
\* back, answered 500 (committed = FALSE)
SeedGoogle(a, collected, committed) ==
  /\ admin[a].pc = "idle"
  /\ admin[a].ops < MaxAdminOps
  /\ IF collected < SeedMinimum \/ ~committed
     THEN /\ admin' = [admin EXCEPT ![a].ops = @ + 1, ![a].ok = 200,
                                    ![a].before = <<books, BOOKS_MAP_CACHE>>,
                                    ![a].status = 500, ![a].deactivates = 0]
          /\ UNCHANGED <<books, books_id_seq, retired>>
     ELSE /\ books' = SeedBooks(collected)
          /\ books_id_seq' = collected + 1
          /\ retired' = {}
          /\ admin' = [admin EXCEPT ![a].ops = @ + 1, ![a].ok = 200,
                                    ![a].before = <<books, BOOKS_MAP_CACHE>>,
                                    ![a].pc = "refresh_query",
                                    ![a].status = 0, ![a].deactivates = 0]
  /\ UNCHANGED <<BOOKS_MAP_CACHE, req, orders, orders_id_seq, tossCalls,
                 listing, patchRes, vItems, vTotal, vResult, vRepeat,
                 siteRest>>

\* the INSERT / UPDATE of a create, update or deactivate request throws: the
\* catch block answers 500 and nothing was written
AdminWriteThrows(a) ==
  /\ admin[a].pc = "idle"
  /\ admin[a].ops < MaxAdminOps
  /\ admin' = [admin EXCEPT ![a].ops = @ + 1, ![a].ok = 200,
                            ![a].before = <<books, BOOKS_MAP_CACHE>>,
                            ![a].status = 500, ![a].deactivates = 0]
  /\ UNCHANGED <<books, BOOKS_MAP_CACHE, req, orders, orders_id_seq,
                 tossCalls, retired, listing, patchRes, vItems, vTotal,
                 vResult, vRepeat, siteVars>>

\* refreshBooksCache: the SELECT throws (the write before it is committed);
\* the handler's catch block answers 500
RefreshThrows(a) ==
  /\ admin[a].pc = "refresh_query"
  /\ admin' = [admin EXCEPT ![a].pc = "idle", ![a].rows = <<>>,
                            ![a].status = 500]
  /\ UNCHANGED <<books, BOOKS_MAP_CACHE, req, orders, orders_id_seq,
                 tossCalls, retired, listing, patchRes, vItems, vTotal,
                 vResult, vRepeat, siteVars>>

\* refreshBooksCache, first half: the SELECT of the active rows
RefreshQuery(a) ==
  /\ admin[a].pc = "refresh_query"
  /\ admin' = [admin EXCEPT ![a].pc = "refresh_assign",
                            ![a].rows = ActiveRows(books)]
  /\ UNCHANGED <<books, BOOKS_MAP_CACHE, req, orders, orders_id_seq,
                 tossCalls, retired, listing, patchRes, vItems, vTotal, vResult, vRepeat, siteVars>>

\* refreshBooksCache, second half: the assignment of the cache from the rows
\* this task selected; the handler then answers 200 (201 for a created
\* product)
RefreshAssign(a) ==
  /\ admin[a].pc = "refresh_assign"
  /\ BOOKS_MAP_CACHE' = admin[a].rows
  /\ admin' = [admin EXCEPT ![a].pc = "idle", ![a].rows = <<>>,
                            ![a].status = admin[a].ok]
  /\ retired' = IF admin[a].deactivates # 0
                THEN retired \cup {admin[a].deactivates}
                ELSE retired
  /\ UNCHANGED <<books, req, orders, orders_id_seq, tossCalls,
                 listing, patchRes, vItems, vTotal, vResult, vRepeat, siteVars>>

\* --------------------------------------------------- orders: list, status
NoListing == [user |-> 0, orders |-> <<>>, token |-> NoToken]
NoPatch == [http |-> 0, id |-> 0, status |-> ""]

\* LIMIT 50 of the caller's order list
ListLimit == 50

\* SELECT id, order_id, total_amount, status, items FROM orders
\* WHERE user_id = $1 ORDER BY created_at DESC LIMIT 50
\* (created_at is the insertion time, so newest first is the reverse of the
\* insertion order)
GetOrders(user_id) ==
  LET IsOwn(row) == row.user_id = user_id
      own == SelectSeq(orders, IsOwn)
      n == Len(own)
      m == IF n < ListLimit THEN n ELSE ListLimit
  IN  [j \in 1..m |->
         [id |-> own[n + 1 - j].id, order_id |-> own[n + 1 - j].order_id,
          total_amount |-> own[n + 1 - j].total_amount,
          status |-> own[n + 1 - j].status, items |-> own[n + 1 - j].items]]

\* GET /api/orders: authenticateToken, then the list of the orders of
\* req.user.id, the id the token was signed for
ListOrders(token) ==
  /\ IF token = NoToken \/ VerifyError(token)
     THEN /\ denied' = Denial("orders", token)
          /\ UNCHANGED listing
     ELSE /\ listing' = [user |-> token.id, orders |-> GetOrders(token.id),
                         token |-> token]
          /\ UNCHANGED denied
  /\ UNCHANGED <<books, BOOKS_MAP_CACHE, admin, req, orders, orders_id_seq,
                 tossCalls, retired, patchRes, vItems, vTotal, vResult,
                 vRepeat, limiter, siteQuiet>>

\* GET /api/me: authenticateToken, then
\* SELECT id, email, role, created_at FROM app_users WHERE id = req.user.id
GetMe(token) ==
  /\ IF token = NoToken \/ VerifyError(token)
     THEN /\ denied' = Denial("me", token)
          /\ UNCHANGED meRes
     ELSE /\ meRes' =
               IF \E i \in 1..Len(app_users) : app_users[i].id = token.id
               THEN [http |-> 200, error |-> "", id |-> token.id,
                     token |-> token]
               ELSE [http |-> 404, error |-> "user_not_found", id |-> 0,
                     token |-> token]
          /\ UNCHANGED denied
  /\ UNCHANGED <<books, BOOKS_MAP_CACHE, admin, req, orders, orders_id_seq,
                 tossCalls, retired, listing, patchRes, vItems, vTotal,
                 vResult, vRepeat, books_id_seq, server, app_users,
                 users_id_seq, reg, limiter, login>>

\* the app_users rows with this email (SELECT ... WHERE email = $1)
UsersByEmail(email) ==
  LET Has(row) == row.email = email IN SelectSeq(app_users, Has)

\* variant: the limiter is asked after the handler has looked the
\* credentials up, and only for credentials that are right
Login_limiterLast(email, password) ==
  LET rows == UsersByEmail(email)
      answer(http, error, token, checked) ==
        [http |-> http, error |-> error, token |-> token,
         checked |-> checked, email |-> email, password |-> password]
  IN
  /\ limiter' = Hit("login")
  /\ login' =
       IF email = "" \/ password = NoPassword
       THEN answer(400, "missing_credentials", NoToken, FALSE)
       ELSE IF Len(rows) = 0
       THEN answer(401, "bad_credentials", NoToken, TRUE)
       ELSE IF ~Compare(password, rows[1].password)
       THEN answer(401, "bad_credentials", NoToken, TRUE)
       ELSE IF Limited("login")
       THEN answer(429, "too_many_login_attempts", NoToken, TRUE)
       ELSE answer(200, "", SignedToken(rows[1].id), TRUE)
  /\ UNCHANGED <<shopVars, books_id_seq, server, app_users, users_id_seq,
                 reg, meRes, denied>>

\* POST /api/login: loginLimiter (429 beyond the limit), then the handler:
\* 400 without email or password, 401 for an unknown email or a password
\* bcrypt.compare refuses, else 200 with a token signed for the user
Login(email, password) ==
  LET rows == UsersByEmail(email)
      answer(http, error, token, checked) ==
        [http |-> http, error |-> error, token |-> token,
         checked |-> checked, email |-> email, password |-> password]
  IN
  /\ limiter' = Hit("login")
  /\ login' =
       IF Limited("login")
       THEN answer(429, "too_many_login_attempts", NoToken, FALSE)
       ELSE IF email = "" \/ password = NoPassword
       THEN answer(400, "missing_credentials", NoToken, FALSE)
       ELSE IF Len(rows) = 0
       THEN answer(401, "bad_credentials", NoToken, TRUE)
       ELSE IF ~Compare(password, rows[1].password)
       THEN answer(401, "bad_credentials", NoToken, TRUE)
       ELSE answer(200, "", SignedToken(rows[1].id), TRUE)
  /\ UNCHANGED <<shopVars, books_id_seq, server, app_users, users_id_seq,
                 reg, meRes, denied>>

\* POST /api/register up to its first await: the input checks
Register(g, email, password) ==
  LET body == [reg[g] EXCEPT !.email = email, !.password = password]
      passwordCheck == validatePasswordStrength(password)
  IN
  /\ reg[g].pc = "idle"
  /\ reg' = [reg EXCEPT ![g] =
       IF email = "" \/ password = NoPassword
       THEN [body EXCEPT !.pc = "done",
                         !.res = [http |-> 400, error |-> "missing_fields"]]
       ELSE IF ~isEmail(email)
       THEN [body EXCEPT !.pc = "done",
                         !.res = [http |-> 400, error |-> "bad_email"]]
       ELSE IF ~passwordCheck.valid
       THEN [body EXCEPT !.pc = "done",
                         !.res = [http |-> 400, error |-> passwordCheck.error]]
       ELSE [body EXCEPT !.pc = "select"]]
  /\ UNCHANGED <<shopVars, books_id_seq, server, app_users, users_id_seq,
                 limiter, login, meRes, denied>>

\* SELECT id FROM app_users WHERE email = $1 returns: 409 when a row has
\* the email, else on to bcrypt.hash and the INSERT
RegisterSelect(g) ==
  /\ reg[g].pc = "select"
  /\ reg' = [reg EXCEPT ![g] =
       IF Len(UsersByEmail(reg[g].email)) > 0
       THEN [@ EXCEPT !.pc = "done",
                      !.res = [http |-> 409, error |-> "already_registered"]]
       ELSE [@ EXCEPT !.pc = "insert"]]
  /\ UNCHANGED <<shopVars, books_id_seq, server, app_users, users_id_seq,
                 limiter, login, meRes, denied>>

\* INSERT INTO app_users (email, password) with the bcrypt hash: id is the
\* next value of the sequence (taken even when the INSERT fails); email is
\* UNIQUE, a second row with the email makes the query throw, and the
\* handler's catch answers 500
RegisterInsert(g) ==
  /\ reg[g].pc = "insert"
  /\ users_id_seq' = users_id_seq + 1
  /\ IF Len(UsersByEmail(reg[g].email)) > 0
     THEN /\ reg' = [reg EXCEPT ![g].pc = "done",
                       ![g].res = [http |-> 500, error |-> "server_error"]]
          /\ UNCHANGED app_users
     ELSE /\ app_users' = Append(app_users,
               [id |-> users_id_seq, email |-> reg[g].email,
                password |-> Hash(reg[g].password)])
          /\ reg' = [reg EXCEPT ![g].pc = "done",
                                ![g].res = [http |-> 201, error |-> ""]]
  /\ UNCHANGED <<shopVars, books_id_seq, server, limiter, login, meRes,
                 denied>>

\* ---------------------------------------------------------------- startup
\* the server before initDB() is called: BOOKS_MAP_CACHE is the empty Map
\* of its declaration; `loaded` records that a refresh has assigned it
Starting == [pc |-> "starting", rows |-> <<>>, loaded |-> FALSE]
\* the server once app.listen has been called
Listening == [pc |-> "listening", rows |-> <<>>, loaded |-> TRUE]

\* initDB up to its last step: CREATE TABLE IF NOT EXISTS ..., and the
\* promotion of ADMIN_EMAIL
InitTables ==
  /\ server.pc = "starting"
  /\ server' = [server EXCEPT !.pc = "refresh_query"]
  /\ UNCHANGED <<shopVars, books_id_seq, app_users, users_id_seq, reg,
                 limiter, login, meRes, denied>>

\* await refreshBooksCache() in initDB, first half: the SELECT of the
\* active rows
InitRefreshQuery ==
  /\ server.pc = "refresh_query"
  /\ server' = [server EXCEPT !.pc = "refresh_assign",
                              !.rows = ActiveRows(books)]
  /\ UNCHANGED <<shopVars, books_id_seq, app_users, users_id_seq, reg,
                 limiter, login, meRes, denied>>

\* second half: the assignment of the cache; initDB's promise resolves
InitRefreshAssign ==
  /\ server.pc = "refresh_assign"
  /\ BOOKS_MAP_CACHE' = server.rows
  /\ server' = [server EXCEPT !.pc = "ready", !.rows = <<>>,
                              !.loaded = TRUE]
  /\ UNCHANGED <<books, admin, req, orders, orders_id_seq, tossCalls,
                 retired, listing, patchRes, vItems, vTotal, vResult, vRepeat,
                 books_id_seq, app_users, users_id_seq, reg, limiter, login,
                 meRes, denied>>

\* a query of initDB rejects: .catch logs the error and nothing else runs
InitThrows ==
  /\ server.pc \in {"starting", "refresh_query"}
  /\ server' = [server EXCEPT !.pc = "failed"]
  /\ UNCHANGED <<shopVars, books_id_seq, app_users, users_id_seq, reg,
                 limiter, login, meRes, denied>>

\* variant: app.listen is called next to initDB(), not in its .then
Listen_eager ==
  /\ server.pc \in {"starting", "refresh_query", "refresh_assign", "ready"}
  /\ server' = [server EXCEPT !.pc = "listening"]
  /\ UNCHANGED <<shopVars, books_id_seq, app_users, users_id_seq, reg,
                 limiter, login, meRes, denied>>

\* initDB().then(() => app.listen(PORT, ...))
Listen ==
  /\ server.pc = "ready"
  /\ server' = [server EXCEPT !.pc = "listening"]
  /\ UNCHANGED <<shopVars, books_id_seq, app_users, users_id_seq, reg,
                 limiter, login, meRes, denied>>

\* the 15 minutes of limiter l's window are over: its count starts again
WindowExpires(l) ==
  /\ limiter[l] > 0
  /\ limiter' = [limiter EXCEPT ![l] = 0]
  /\ UNCHANGED <<books, BOOKS_MAP_CACHE, admin, req, orders, orders_id_seq,
                 tossCalls, retired, listing, patchRes, vItems, vTotal,
                 vResult, vRepeat, denied, siteQuiet>>

\* variant: CANCELED is not among the accepted values
allowedStatuses_noCanceled == {"READY", "DONE", "SHIPPING", "DELIVERED"}

\* const allowedStatuses = ['READY', 'DONE', 'SHIPPING', 'DELIVERED', 'CANCELED']
allowedStatuses == {"READY", "DONE", "SHIPPING", "DELIVERED", "CANCELED"}

\* variant: setting the status CANCELED deletes the order row
PatchOrderStatus_cancelDeletes(id, status) ==
  /\ IF FalsyStr(status) \/ status \notin allowedStatuses
     THEN /\ patchRes' = [http |-> 400, id |-> id, status |-> status]
          /\ UNCHANGED orders
     ELSE IF \A i \in 1..Len(orders) : orders[i].id # id
     THEN /\ patchRes' = [http |-> 404, id |-> id, status |-> status]
          /\ UNCHANGED orders
     ELSE /\ patchRes' = [http |-> 200, id |-> id, status |-> status]
          /\ orders' = IF status = "CANCELED"
                       THEN LET Kept(row) == row.id # id
                            IN  SelectSeq(orders, Kept)
                       ELSE [i \in 1..Len(orders) |->
                               IF orders[i].id = id
                               THEN [orders[i] EXCEPT !.status = status]
                               ELSE orders[i]]
  /\ UNCHANGED <<books, BOOKS_MAP_CACHE, admin, req, orders_id_seq,
                 tossCalls, retired, listing, vItems, vTotal, vResult,
                 vRepeat, siteVars>>

\* PATCH /api/admin/orders/:id/status with body { status } ("" when missing):
\* 400 unless the status is one of allowedStatuses; then
\* UPDATE orders SET status = $1 WHERE id = $2 RETURNING ..., 404 when no row
\* was updated, 200 otherwise
PatchOrderStatus(id, status) ==
  /\ IF FalsyStr(status) \/ status \notin allowedStatuses
     THEN /\ patchRes' = [http |-> 400, id |-> id, status |-> status]
          /\ UNCHANGED orders
     ELSE IF \A i \in 1..Len(orders) : orders[i].id # id
     THEN /\ patchRes' = [http |-> 404, id |-> id, status |-> status]
          /\ UNCHANGED orders
     ELSE /\ patchRes' = [http |-> 200, id |-> id, status |-> status]
          /\ orders' = [i \in 1..Len(orders) |->
                          IF orders[i].id = id
                          THEN [orders[i] EXCEPT !.status = status]
                          ELSE orders[i]]
  /\ UNCHANGED <<books, BOOKS_MAP_CACHE, admin, req, orders_id_seq,
                 tossCalls, retired, listing, vItems, vTotal, vResult, vRepeat, siteVars>>

\* ----------------------------------------------------------- initial site
\* the state of users, sign-in and startup once the server is listening and
\* nobody has signed in yet
InitSite ==
  /\ books_id_seq = 3
  /\ server = Listening
  /\ app_users = InitUsers
  /\ users_id_seq = 3
  /\ reg = [g \in Regs |-> IdleReg]
  /\ limiter = NoHits
  /\ login = NoLogin
  /\ meRes = NoMe
  /\ denied = NoDenial

\* ------------------------------------------------------------ specification
\* the state once initDB has run: empty orders table, cache loaded
Init ==
  /\ books = InitBooks
  /\ BOOKS_MAP_CACHE = ActiveRows(InitBooks)
  /\ admin = [a \in Admins |-> IdleAdmin]
  /\ req = [r \in Reqs |-> IdleReq]
  /\ orders = <<>>
  /\ orders_id_seq = 1
  /\ tossCalls = {}
  /\ retired = {}
  /\ listing = NoListing
  /\ patchRes = NoPatch
  /\ vItems = <<>>
  /\ vTotal = undefined
  /\ vResult = NoValidation
  /\ vRepeat = NoValidation
  /\ InitSite

Next ==
  \/ \E r \in Reqs, ref \in ReqRefs, amount \in ReqAmounts, items \in ReqItems :
       PaymentsConfirm(r, SignedToken(UserOf(r)), ref[1], ref[2], amount, items, undefined)
  \/ \E r \in Reqs, o \in OrderIds, k \in PaymentKeys, t \in TossTotals :
       TossConfirmed(r, o, k, t, "DONE")
  \/ \E r \in Reqs, err \in TossErrors : TossRejected(r, err)
  \/ \E r \in Reqs : TossThrows(r)
  \/ \E r \in Reqs : InsertOrder(r)
  \/ \E r \in Reqs : InsertThrows(r)
  \/ \E a \in SerialAdmins, b \in AdminBookIds, p \in AdminPrices,
          act \in AdminActive :
       AdminPutBook(a, b, p, act)
  \/ \E a \in SerialAdmins, b \in AdminBookIds : AdminDeleteBook(a, b)
  \/ \E a \in SerialAdmins : RefreshQuery(a)
  \/ \E a \in SerialAdmins : RefreshAssign(a)

Spec == Init /\ [][Next]_vars

\* What the runtime guarantees about the steps of a started handler: a query
\* sent to the database pool settles (it returns or throws), and the
\* continuation of a settled await runs.  Nothing makes the provider answer:
\* the fetch of the confirm call carries no timeout and no abort signal, so
\* the provider's three outcomes get no fairness.
Fairness ==
  /\ \A r \in Reqs : WF_vars(InsertOrder(r) \/ InsertThrows(r))
  /\ \A a \in Admins : WF_vars(RefreshQuery(a))
  /\ \A a \in Admins : WF_vars(RefreshAssign(a))

SpecFair == Spec /\ Fairness

\* --------------------------------------------- concurrent catalog requests
\* line lists of the confirmation requests that arrive while the catalog
\* changes: one line for book 1 or book 2 at either price
CatItems == {<<Item(b, p, 1)>> : b \in {1, 2}, p \in {15000, 29999}}
CatAmounts == {18000, 32999}

\* Catalog requests of two administrator tasks run concurrently: each one
\* updates the table, selects the active rows and assigns the cache, and
\* the steps of different tasks interleave at the awaits.
\* A confirmation request (task 1) arrives in between and is validated
\* against the current cache.
NextCat ==
  \/ \E a \in Admins, b \in AdminBookIds, p \in AdminPrices,
          act \in AdminActive :
       AdminPutBook(a, b, p, act)
  \/ \E a \in Admins, b \in AdminBookIds : AdminDeleteBook(a, b)
  \/ \E a \in Admins : RefreshQuery(a)
  \/ \E a \in Admins : RefreshAssign(a)
  \/ \E amount \in CatAmounts, items \in CatItems :
       PaymentsConfirm(1, SignedToken(UserOf(1)), "pk1", "o1", amount, items, undefined)

SpecCat == Init /\ [][NextCat]_vars

\* ------------------------------------------------- orders and their owners
\* request bodies that validate against the initial cache; the body may carry
\* a userId of the caller's choosing
OwnRefs == {<<"pk1", "o1">>, <<"pk2", "o2">>}
Users == {UserOf(r) : r \in Reqs}
\* order ids and status values an administrator sends
PatchIds == {1, 2, 3}
PatchStatuses == {"", "READY", "CANCELED", "REFUNDED"}

\* Confirmation requests of two users, the provider answering each with the
\* references it was called with and any payment status; users list their
\* orders and an administrator changes order statuses.
NextO ==
  \/ \E r \in Reqs, ref \in OwnRefs, u \in BodyUserIds :
       PaymentsConfirm(r, SignedToken(UserOf(r)), ref[1], ref[2], 18000, <<Item(1, 15000, 1)>>, u)
  \/ \E r \in Reqs, st \in TossStatuses :
       TossConfirmed(r, req[r].orderId, req[r].paymentKey, 18000, st)
  \/ \E r \in Reqs : InsertOrder(r)
  \/ \E u \in Users : ListOrders(SignedToken(u))
  \/ \E id \in PatchIds, st \in PatchStatuses : PatchOrderStatus(id, st)

SpecO == Init /\ [][NextO]_vars

\* ------------------------------------------- catalog requests that may fail
\* Catalog requests one at a time (create, update, deactivate, seeding),
\* each of whose queries may throw, next to confirmation requests whose
\* orders are stored and whose statuses an administrator changes.
NextMut ==
  \/ \E a \in SerialAdmins, p \in NewPrices : AdminPostBook(a, p)
  \/ \E a \in SerialAdmins, b \in AdminBookIds, p \in AdminPrices,
          act \in AdminActive :
       AdminPutBook(a, b, p, act)
  \/ \E a \in SerialAdmins, b \in AdminBookIds : AdminDeleteBook(a, b)
  \/ \E a \in SerialAdmins, n \in SeedCollected, committed \in BOOLEAN :
       SeedGoogle(a, n, committed)
  \/ \E a \in SerialAdmins : AdminWriteThrows(a)
  \/ \E a \in SerialAdmins : RefreshQuery(a)
  \/ \E a \in SerialAdmins : RefreshThrows(a)
  \/ \E a \in SerialAdmins : RefreshAssign(a)
  \/ \E r \in Reqs, ref \in OwnRefs :
       PaymentsConfirm(r, SignedToken(UserOf(r)), ref[1], ref[2], 18000, <<Item(1, 15000, 1)>>,
                       undefined)
  \/ \E r \in Reqs :
       TossConfirmed(r, req[r].orderId, req[r].paymentKey, 18000, "DONE")
  \/ \E r \in Reqs : InsertOrder(r)
  \/ \E id \in PatchIds, st \in PatchStatuses : PatchOrderStatus(id, st)

SpecMut == Init /\ [][NextMut]_vars

\* The protected endpoints called with every kind of token: task r's caller
\* sends no token, the token signed for them, a forged one or an expired one.
AuthTokens(u) == {NoToken, SignedToken(u), ForgedToken(u), ExpiredToken(u)}
NextAuth ==
  \/ \E r \in Reqs : \E token \in AuthTokens(UserOf(r)) :
       LET ref == IF r = 1 THEN <<"pk1", "o1">> ELSE <<"pk2", "o2">>
       IN  PaymentsConfirm(r, token, ref[1], ref[2], 18000,
                           <<Item(1, 15000, 1)>>, undefined)
  \/ \E r \in Reqs :
       TossConfirmed(r, req[r].orderId, req[r].paymentKey, req[r].amount,
                     "DONE")
  \/ \E r \in Reqs : InsertOrder(r)
  \/ \E u \in Users : \E token \in AuthTokens(u) : ListOrders(token)
  \/ \E u \in Users : \E token \in AuthTokens(u) : GetMe(token)
  \/ WindowExpires("payment")
SpecAuth == Init /\ [][NextAuth]_vars

\* Two-line requests validated while administrators change prices: a price
\* is written to the table, the refresh selects the rows and assigns the
\* cache, and a confirmation request is validated at any point in between.
SnapItems ==
  {<<Item(1, p1, 1), Item(2, p2, 1)>> : p1, p2 \in {15000, 29999}}
SnapAmounts == {30000, 44999, 59998}
NextSnap ==
  \/ \E a \in Admins, b \in {1, 2}, p \in {15000, 29999} :
       AdminPutBook(a, b, p, "null")
  \/ \E a \in Admins : RefreshQuery(a)
  \/ \E a \in Admins : RefreshAssign(a)
  \/ \E amount \in SnapAmounts, items \in SnapItems :
       PaymentsConfirm(1, SignedToken(UserOf(1)), "pk1", "o1", amount, items,
                       undefined)
SpecSnap == Init /\ [][NextSnap]_vars

\* Startup: the process starts with the table a previous run left (or an
\* empty one) and the empty cache; requests reach a handler only through
\* the socket app.listen opens.
BootTables == {InitBooks, <<>>}
InitBoot ==
  /\ books \in BootTables
  /\ BOOKS_MAP_CACHE = <<>>
  /\ admin = [a \in Admins |-> IdleAdmin]
  /\ req = [r \in Reqs |-> IdleReq]
  /\ orders = <<>>
  /\ orders_id_seq = 1
  /\ tossCalls = {}
  /\ retired = {}
  /\ listing = NoListing
  /\ patchRes = NoPatch
  /\ vItems = <<>>
  /\ vTotal = undefined
  /\ vResult = NoValidation
  /\ vRepeat = NoValidation
  /\ books_id_seq = Len(books) + 1
  /\ server = Starting
  /\ app_users = InitUsers
  /\ users_id_seq = 3
  /\ reg = [g \in Regs |-> IdleReg]
  /\ limiter = NoHits
  /\ login = NoLogin
  /\ meRes = NoMe
  /\ denied = NoDenial
NextBoot ==
  \/ InitTables
  \/ InitRefreshQuery
  \/ InitRefreshAssign
  \/ InitThrows
  \/ Listen
  \/ /\ server.pc = "listening"
     /\ \E r \in Reqs, amount \in CatAmounts, items \in CatItems :
          LET ref == IF r = 1 THEN <<"pk1", "o1">> ELSE <<"pk2", "o2">>
          IN  PaymentsConfirm(r, SignedToken(UserOf(r)), ref[1], ref[2],
                              amount, items, undefined)
  \/ /\ server.pc = "listening"
     /\ \E r \in Reqs :
          TossConfirmed(r, req[r].orderId, req[r].paymentKey, req[r].amount,
                        "DONE")
  \/ /\ server.pc = "listening"
     /\ \E r \in Reqs : InsertOrder(r)
SpecBoot == InitBoot /\ [][NextBoot]_vars

\* Sign-in: one client sends login requests with right and wrong
\* credentials, calls /api/me with the token of the last answer, and the
\* limiter's window passes.
LoginEmails == {"", "a@shop", "b@shop", "c@shop"}
LoginPasswords == {NoPassword, StrongPassword, OtherPassword}
NextLogin ==
  \/ \E email \in LoginEmails, password \in LoginPasswords :
       Login(email, password)
  \/ GetMe(login.token)
  \/ WindowExpires("login")
SpecLogin == Init /\ [][NextLogin]_vars

\* Registration: two requests in flight at once, with every shape of
\* address and password.
RegEmails == {"", "not-an-email", "a@shop", "c@shop"}
RegPasswords ==
  {NoPassword, StrongPassword,
   Password(7, TRUE, TRUE, TRUE, TRUE), Password(9, FALSE, TRUE, TRUE, TRUE),
   Password(9, TRUE, FALSE, TRUE, TRUE), Password(9, TRUE, TRUE, FALSE, TRUE),
   Password(9, TRUE, TRUE, TRUE, FALSE)}
NextReg ==
  \/ \E g \in Regs, email \in RegEmails, password \in RegPasswords :
       Register(g, email, password)
  \/ \E g \in Regs : RegisterSelect(g)
  \/ \E g \in Regs : RegisterInsert(g)
SpecReg == Init /\ [][NextReg]_vars

\* ------------------------------------------------------ validator harness
\* validatePaymentAmount applied to every line list and claimed total of the
\* bounded input sets, against each cache of VTables
InitV ==
  /\ books \in VTables
  /\ BOOKS_MAP_CACHE = ActiveRows(books)
  /\ admin = [a \in Admins |-> IdleAdmin]
  /\ req = [r \in Reqs |-> IdleReq]
  /\ orders = <<>>
  /\ orders_id_seq = 1
  /\ tossCalls = {}
  /\ retired = {}
  /\ listing = NoListing
  /\ patchRes = NoPatch
  /\ vItems \in VItemLists
  /\ vTotal \in VTotals
  /\ vResult = NoValidation
  /\ vRepeat = NoValidation
  /\ InitSite

Validate ==
  /\ vResult = NoValidation
  /\ vResult' = validatePaymentAmount(vItems, vTotal)
  /\ UNCHANGED <<books, BOOKS_MAP_CACHE, admin, req, orders, orders_id_seq,
                 tossCalls, retired, listing, patchRes, vItems, vTotal,
                 vRepeat, siteVars>>

\* variant: calculatedSubtotal lives outside the function and is not reset,
\* so a second call goes on from the amount the first one computed
ValidateAgain_subtotalKept ==
  /\ vResult # NoValidation
  /\ vRepeat = NoValidation
  /\ vRepeat' = IF Len(vItems) = 0 THEN Invalid("no_items", undefined)
                ELSE ValidateFrom(vItems, 1,
                       IF vResult.calculatedTotal = undefined THEN 0
                       ELSE vResult.calculatedTotal,
                       vTotal, BOOKS_MAP_CACHE)
  /\ UNCHANGED <<books, BOOKS_MAP_CACHE, admin, req, orders, orders_id_seq,
                 tossCalls, retired, listing, patchRes, vItems, vTotal,
                 vResult, siteVars>>

\* the same request is validated a second time (validatePaymentAmount reads
\* its arguments and BOOKS_MAP_CACHE, and assigns only locals)
ValidateAgain ==
  /\ vResult # NoValidation
  /\ vRepeat = NoValidation
  /\ vRepeat' = validatePaymentAmount(vItems, vTotal)
  /\ UNCHANGED <<books, BOOKS_MAP_CACHE, admin, req, orders, orders_id_seq,
                 tossCalls, retired, listing, patchRes, vItems, vTotal,
                 vResult, siteVars>>

NextV == Validate \/ ValidateAgain

SpecV == InitV /\ [][NextV]_vars

\* ------------------------------------------------- vocabulary of the claims
\* a line whose required fields are present and whose quantity is positive
LineComplete(item) ==
  /\ item.bookId # undefined /\ item.bookId # 0
  /\ item.quantity # undefined /\ item.quantity > 0

\* a line whose product is in the cache under the claimed price
LineMatches(item, cache) ==
  /\ item.bookId \in DOMAIN cache
  /\ item.price = cache[item.bookId].price

LineClean(item, cache) == LineComplete(item) /\ LineMatches(item, cache)

AllClean(items, cache) ==
  /\ Len(items) > 0
  /\ \A i \in 1..Len(items) : LineClean(items[i], cache)

\* sum of master price x quantity over the lines of a clean list
RECURSIVE MasterSubtotal(_, _)
MasterSubtotal(items, cache) ==
  IF items = <<>> THEN 0
  ELSE cache[Head(items).bookId].price * Head(items).quantity
         + MasterSubtotal(Tail(items), cache)

MasterTotal(items, cache) ==
  LET subtotal == MasterSubtotal(items, cache)
  IN  IF subtotal >= 30000 THEN subtotal ELSE subtotal + 3000

\* line i is the first line of the list that fails a check
FirstFailing(items, cache, i) ==
  /\ ~LineClean(items[i], cache)
  /\ \A j \in 1..(i - 1) : LineClean(items[j], cache)

\* the harness has applied the validator
vDone == vResult # NoValidation

\* the rows task r inserted, the provider calls it made
OrdersBy(r) == {i \in 1..Len(orders) : orders[i].by = r}
CallsBy(r) == {c \in tossCalls : c.by = r}

\* task r ran the validator (it got past the input checks)
Validated(r) == Len(req[r].hist) >= 2 /\ req[r].hist[2] = "VALIDATING"

\* the request of task r is one the validator must accept, judged on the
\* cache it read
Acceptable(r) ==
  /\ AllClean(req[r].items, req[r].cacheAt)
  /\ req[r].amount = MasterTotal(req[r].items, req[r].cacheAt)

\* --------------------------------------------------------------------- C1
\* C1 as stated: every order in the orders table has a total_amount equal to
\* the total computed from the master prices (sum of master price x
\* quantity, plus shipping) when its request was validated.
C1_TotalIsServerComputed ==
  \A i \in 1..Len(orders) :
    LET q == req[orders[i].by]
    IN  /\ AllClean(q.items, q.cacheAt)
        /\ orders[i].total_amount = MasterTotal(q.items, q.cacheAt)

\* C1 amended: every order in the orders table was inserted by a request
\* whose claimed amount equalled the total computed from the master prices
\* when it was validated, that amount is the one sent to the provider, and
\* the order's total_amount is the totalAmount the provider returned for
\* that call; it is the server-computed total whenever the provider returns
\* the amount it was asked to confirm.  Later price changes alter neither.
C1_TotalIsProviderTotalOfValidatedRequest ==
  \A i \in 1..Len(orders) :
    LET o == orders[i]
        q == req[o.by]
    IN  /\ AllClean(q.items, q.cacheAt)
        /\ q.amount = MasterTotal(q.items, q.cacheAt)
        /\ o.validated = q.amount
        /\ CallsBy(o.by) = {TossCall(o.by, q.paymentKey, q.orderId, q.amount)}
        /\ o.total_amount = q.tossResult.totalAmount
        /\ (q.tossResult.totalAmount = q.amount)
              => o.total_amount = MasterTotal(q.items, q.cacheAt)

\* an order whose request was validated against prices that have changed
\* since, and for which the provider returned a total of its own
C1_Witness ==
  \E i \in 1..Len(orders) :
    /\ BOOKS_MAP_CACHE # req[orders[i].by].cacheAt
    /\ 1 \in DOMAIN BOOKS_MAP_CACHE
    /\ BOOKS_MAP_CACHE[1].price # req[orders[i].by].cacheAt[1].price
    /\ orders[i].total_amount # orders[i].validated

\* --------------------------------------------------------------------- C2
\* C2: a request that reached the validator with a line list or amount the
\* validator must reject ends REJECTED with a 400 response made of the
\* generic error and the validator's reason as detail; the provider was not
\* called for it and it inserted no order.
C2_RejectedByValidator ==
  \A r \in Reqs :
    (Validated(r) /\ ~Acceptable(r)) =>
      /\ req[r].pc = "REJECTED"
      /\ req[r].res.status = 400
      /\ req[r].res.keys = {"error", "detail"}
      /\ req[r].res.error = "amount_not_correct"
      /\ req[r].res.detail \in {"invalid_item", "not_exist", "price_mismatch",
                                 "amount_mismatch"}
      /\ req[r].res.detail = req[r].validation.error
      /\ CallsBy(r) = {}
      /\ OrdersBy(r) = {}

\* one task rejected for the amount while the other completed an order
C2_Witness ==
  \E r, t \in Reqs :
    /\ req[r].pc = "REJECTED"
    /\ req[r].res.detail = "amount_mismatch"
    /\ req[t].pc = "COMPLETED"
    /\ req[r].paymentKey = req[t].paymentKey

\* --------------------------------------------------------------------- C3
\* C3: a request that passed validation and whose provider call was answered
\* with an error inserted no order, and its response has the provider's HTTP
\* status and the fields error, code and message with the provider's code
\* and message, without a detail field.
C3_ProviderFailureSurfaced ==
  \A r \in Reqs :
    (req[r].tossResult.http >= 400) =>
      /\ Acceptable(r)
      /\ req[r].pc = "PROVIDER_FAILED"
      /\ req[r].res.status = req[r].tossResult.http
      /\ req[r].res.keys = {"error", "code", "message"}
      /\ req[r].res.code = req[r].tossResult.code
      /\ req[r].res.message = req[r].tossResult.message
      /\ req[r].res.code \in {e.code : e \in TossErrors}
      /\ req[r].res.detail = ""
      /\ OrdersBy(r) = {}

C3_Witness ==
  \E r \in Reqs :
    /\ req[r].pc = "PROVIDER_FAILED"
    /\ req[r].res.status = 404
    /\ req[r].res.code = "NOT_FOUND_PAYMENT"
    /\ Len(orders) = 1

\* --------------------------------------------------------------------- C4
\* the paths of a confirmation task; "ERROR" is the 500 answer of the
\* handler's catch block
C4_Paths ==
  {<<"RECEIVED", "REJECTED">>,
   <<"RECEIVED", "VALIDATING", "REJECTED">>,
   <<"RECEIVED", "VALIDATING", "PROVIDER_CONFIRMING">>,
   <<"RECEIVED", "VALIDATING", "PROVIDER_CONFIRMING", "PROVIDER_FAILED">>,
   <<"RECEIVED", "VALIDATING", "PROVIDER_CONFIRMING", "ERROR">>,
   <<"RECEIVED", "VALIDATING", "PROVIDER_CONFIRMING", "PERSISTING">>,
   <<"RECEIVED", "VALIDATING", "PROVIDER_CONFIRMING", "PERSISTING", "ERROR">>,
   <<"RECEIVED", "VALIDATING", "PROVIDER_CONFIRMING", "PERSISTING",
     "COMPLETED">>}

\* C4: a confirmation task goes through RECEIVED, VALIDATING,
\* PROVIDER_CONFIRMING, PERSISTING, COMPLETED in this order and leaves the
\* sequence only into a terminal state; it is COMPLETED with a 200 response
\* only if its request was acceptable, the provider confirmed it and its
\* order row is stored; every order row belongs to a task whose provider
\* call succeeded; nothing follows REJECTED or PROVIDER_FAILED.
C4_StateOrder ==
  /\ \A r \in Reqs :
        /\ (req[r].pc # "idle") =>
              /\ req[r].hist \in C4_Paths
              /\ req[r].pc = req[r].hist[Len(req[r].hist)]
        /\ (req[r].pc = "COMPLETED" \/ req[r].res.status = 200) =>
              /\ req[r].pc = "COMPLETED" /\ req[r].res.status = 200
              /\ Acceptable(r)
              /\ req[r].tossResult.http = 200
              /\ Cardinality(OrdersBy(r)) = 1
        /\ (req[r].pc \in {"PERSISTING", "COMPLETED"}) =>
              /\ CallsBy(r) # {}
              /\ req[r].tossResult.http = 200
  /\ \A i \in 1..Len(orders) :
        /\ req[orders[i].by].tossResult.http = 200
        /\ req[orders[i].by].pc = "COMPLETED"

C4_Witness ==
  \E r, t \in Reqs :
    /\ req[r].pc = "COMPLETED"
    /\ req[t].pc = "PROVIDER_FAILED"
    /\ OrdersBy(r) # {}

\* --------------------------------------------------------------------- C5
\* C5: the orders table never holds two rows with the same order reference
\* or with the same payment reference; a task whose insert met an existing
\* reference ended with the 500 answer and left the first row as it was.
C5_UniqueReferences ==
  /\ \A i, j \in 1..Len(orders) :
        (i # j) => /\ orders[i].order_id # orders[j].order_id
                   /\ orders[i].payment_key # orders[j].payment_key
  /\ \A r \in Reqs :
        (req[r].pc = "ERROR") =>
           /\ OrdersBy(r) = {}
           /\ req[r].res.status = 500
  /\ \A i \in 1..Len(orders) :
        /\ orders[i].order_id = req[orders[i].by].tossResult.orderId
        /\ orders[i].payment_key = req[orders[i].by].tossResult.paymentKey

\* double submit: both tasks sent the same references, both were confirmed
\* by the provider, one row is stored and the other task got the 500 answer
C5_Witness ==
  \E r, t \in Reqs :
    /\ r # t
    /\ req[r].orderId = req[t].orderId
    /\ req[r].paymentKey = req[t].paymentKey
    /\ req[r].tossResult.orderId = req[t].tossResult.orderId
    /\ req[r].tossResult.http = 200 /\ req[t].tossResult.http = 200
    /\ req[r].pc = "COMPLETED"
    /\ req[t].pc = "ERROR"
    /\ Len(orders) = 1

\* --------------------------------------------------------------------- C6
\* C6: for every non-empty line list whose lines all have a bookId in the
\* cache, the master price as claimed price and a quantity > 0, the validator
\* computes the sum of master price x quantity plus shipping (0 from 30000
\* on, 3000 below) and accepts exactly when the claimed total equals it.
C6_CleanListsAcceptedIffTotalMatches ==
  (vDone /\ AllClean(vItems, BOOKS_MAP_CACHE)) =>
     /\ vResult.calculatedTotal = MasterTotal(vItems, BOOKS_MAP_CACHE)
     /\ vResult.valid <=> (vTotal = MasterTotal(vItems, BOOKS_MAP_CACHE))

C6_Witness ==
  /\ vDone
  /\ Len(vItems) = 2
  /\ AllClean(vItems, BOOKS_MAP_CACHE)
  /\ vItems[1].bookId # vItems[2].bookId
  /\ vResult.valid

\* --------------------------------------------------------------------- C7
\* C7 as stated: whenever some line's claimed unit price differs from the
\* master price of its product, the validator rejects with the price-mismatch
\* reason (stated here for lines that have all their fields and a positive
\* quantity).
C7_AnyMismatchGivesPriceMismatch ==
  (vDone /\ \E i \in 1..Len(vItems) :
              /\ LineComplete(vItems[i])
              /\ vItems[i].bookId \in DOMAIN BOOKS_MAP_CACHE
              /\ vItems[i].price # BOOKS_MAP_CACHE[vItems[i].bookId].price)
    => (~vResult.valid /\ vResult.error = "price_mismatch")

\* C7 amended: a list with a line whose claimed unit price differs from the
\* master price of its product is always rejected, whatever the claimed
\* total; the reason is the price mismatch when that line is the first line
\* failing a check and its required fields are present.
C7_MismatchRejectedFirstReasonWins ==
  vDone =>
    \A i \in 1..Len(vItems) :
      (/\ vItems[i].bookId \in DOMAIN BOOKS_MAP_CACHE
       /\ vItems[i].price # BOOKS_MAP_CACHE[vItems[i].bookId].price)
      => /\ ~vResult.valid
         /\ (FirstFailing(vItems, BOOKS_MAP_CACHE, i) /\ LineComplete(vItems[i]))
              => vResult.error = "price_mismatch"

\* a tampered price whose total, computed from the claimed figures, is the
\* claimed total
C7_Witness ==
  /\ vDone
  /\ Len(vItems) = 1
  /\ LineComplete(vItems[1])
  /\ vItems[1].bookId \in DOMAIN BOOKS_MAP_CACHE
  /\ vItems[1].price # BOOKS_MAP_CACHE[vItems[1].bookId].price
  /\ vTotal = vItems[1].price * vItems[1].quantity + 3000
  /\ vResult.error = "price_mismatch"

\* --------------------------------------------------------------------- C8
\* C8 as stated: whenever the list contains a bookId that is absent from the
\* cache, the validator rejects with the does-not-exist reason, whatever the
\* other lines contain (stated here for lines that have all their fields and
\* a positive quantity).
C8_AnyUnknownGivesNotExist ==
  (vDone /\ \E i \in 1..Len(vItems) :
              /\ LineComplete(vItems[i])
              /\ vItems[i].bookId \notin DOMAIN BOOKS_MAP_CACHE)
    => (~vResult.valid /\ vResult.error = "not_exist")

\* C8 amended: a list containing a bookId absent from the cache is always
\* rejected, whatever the claimed total; the reason is does-not-exist when
\* the line with that bookId is the first line failing a check and its
\* quantity is present and positive.
C8_UnknownRejectedFirstReasonWins ==
  vDone =>
    \A i \in 1..Len(vItems) :
      (/\ vItems[i].bookId # undefined
       /\ vItems[i].bookId \notin DOMAIN BOOKS_MAP_CACHE)
      => /\ ~vResult.valid
         /\ (FirstFailing(vItems, BOOKS_MAP_CACHE, i) /\ LineComplete(vItems[i]))
              => vResult.error = "not_exist"

C8_Witness ==
  /\ vDone
  /\ Len(vItems) = 2
  /\ LineClean(vItems[1], BOOKS_MAP_CACHE)
  /\ LineComplete(vItems[2])
  /\ vItems[2].bookId \notin DOMAIN BOOKS_MAP_CACHE
  /\ vItems[2].bookId \in DOMAIN books
  /\ vResult.error = "not_exist"

\* --------------------------------------------------------------------- C9
\* C9 as stated: whenever the list contains a line whose quantity is <= 0 or
\* whose bookId or quantity is missing, the validator rejects with the
\* invalid-line-item reason.
C9_AnyIncompleteGivesInvalidItem ==
  (vDone /\ \E i \in 1..Len(vItems) : ~LineComplete(vItems[i]))
    => (~vResult.valid /\ vResult.error = "invalid_item")

\* C9 amended: a list containing a line whose quantity is <= 0 or whose
\* bookId or quantity is missing is always rejected; the reason is
\* invalid-line-item when no earlier line fails a check.
C9_IncompleteRejectedFirstReasonWins ==
  vDone =>
    \A i \in 1..Len(vItems) :
      (\/ vItems[i].bookId = undefined
       \/ vItems[i].quantity = undefined
       \/ vItems[i].quantity <= 0)
      => /\ ~vResult.valid
         /\ FirstFailing(vItems, BOOKS_MAP_CACHE, i)
              => vResult.error = "invalid_item"

C9_Witness ==
  /\ vDone
  /\ Len(vItems) = 2
  /\ LineClean(vItems[1], BOOKS_MAP_CACHE)
  /\ LineMatches(vItems[2], BOOKS_MAP_CACHE)
  /\ vItems[2].quantity < 0
  /\ vResult.error = "invalid_item"

\* -------------------------------------------------------------------- C10
\* C10: on clean lists the shipping fee (computed total minus subtotal) is 0
\* exactly when the subtotal is >= 30000 and 3000 otherwise; a subtotal of
\* exactly 30000 is accepted with claimed total 30000, and a subtotal of
\* 29999 or less is accepted only with claimed total subtotal + 3000.
C10_ShippingBoundaryInclusive ==
  (vDone /\ AllClean(vItems, BOOKS_MAP_CACHE)) =>
    LET subtotal == MasterSubtotal(vItems, BOOKS_MAP_CACHE)
        fee == vResult.calculatedTotal - subtotal
    IN  /\ fee \in {0, 3000}
        /\ (fee = 0) <=> (subtotal >= 30000)
        /\ (subtotal = 30000 /\ vTotal = 30000) => vResult.valid
        /\ (subtotal <= 29999) => (vResult.valid <=> vTotal = subtotal + 3000)

C10_Witness ==
  /\ vDone
  /\ AllClean(vItems, BOOKS_MAP_CACHE)
  /\ MasterSubtotal(vItems, BOOKS_MAP_CACHE) = 30000
  /\ vTotal = 30000
  /\ vResult.valid

\* -------------------------------------------------------------------- C11
\* C11: whenever the validator rejects a non-empty line list, its result
\* carries both a reason and the server-computed total (the result shape
\* { valid: false, error, calculatedTotal } of the function's header comment).
C11_RejectionCarriesReasonAndTotal ==
  (vDone /\ Len(vItems) > 0 /\ ~vResult.valid) =>
     /\ vResult.error # ""
     /\ vResult.calculatedTotal # undefined

\* -------------------------------------------------------------------- C12
\* the task's insert failed after the provider had confirmed the payment
InsertFailed(r) ==
  /\ req[r].pc = "ERROR"
  /\ \E i \in 1..Len(req[r].hist) : req[r].hist[i] = "PERSISTING"

\* C12: when the order insert fails after the provider confirmed the payment
\* (uniqueness violation or storage error), the caller gets a 500 response
\* that differs from a validation failure (400 with a detail field), and the
\* orders table holds no row inserted by that request.
C12_InsertFailureIsServerError ==
  \A r \in Reqs :
    InsertFailed(r) =>
      /\ req[r].res.status = 500
      /\ "detail" \notin req[r].res.keys
      /\ \A total \in ReqAmounts, err \in {"invalid_item", "not_exist",
                                           "price_mismatch", "amount_mismatch"} :
           req[r].res # ValidationFailedResponse(Invalid(err, total))
      /\ OrdersBy(r) = {}
      /\ req[r].tossResult.http = 200

\* a task whose insert was refused because another task's row already holds
\* the order reference the provider returned
C12_Witness ==
  \E r \in Reqs :
    /\ InsertFailed(r)
    /\ \E i \in 1..Len(orders) :
         /\ orders[i].by # r
         /\ orders[i].order_id = req[r].tossResult.orderId

\* -------------------------------------------------------------------- C13
\* the states in which the handler has answered its caller
Terminal == {"REJECTED", "PROVIDER_FAILED", "ERROR", "COMPLETED"}

\* C13: every confirmation request that started the provider call eventually
\* reaches a terminal outcome and answers its caller, whatever the provider
\* does (also when it never responds).
C13_EveryRequestAnswered ==
  \A r \in Reqs :
    (req[r].pc = "PROVIDER_CONFIRMING") ~> (req[r].pc \in Terminal)

\* -------------------------------------------------------------------- C14
\* C14: at the moment a catalog request answers success (the step that
\* assigns the cache and returns 200) with no other catalog request still in
\* progress, the cache holds exactly the active products of the books table,
\* also when the request ran concurrently with others and their refreshes
\* interleaved.
C14_CacheFreshWhenRequestReturns ==
  [][\A a \in Admins :
       ( /\ admin[a].pc = "refresh_assign" /\ admin'[a].pc = "idle"
         /\ \A other \in Admins \ {a} : admin[other].pc = "idle" ) =>
            BOOKS_MAP_CACHE' = ActiveRows(books')]_vars

\* -------------------------------------------------------------------- C15
\* C15: once the deactivation of a product has been answered to the
\* administrator (and the product has not been reactivated), every later
\* confirmation request whose one-line list references that product is
\* rejected by the validator with "product not found".
C15_RetiredProductRejected ==
  [][\A r \in Reqs, b \in retired :
       ( /\ req[r].pc = "idle" /\ req'[r].pc # "idle"
         /\ ~books[b].is_active
         /\ Len(req'[r].items) = 1
         /\ req'[r].items[1].bookId = b
         /\ LineComplete(req'[r].items[1]) ) =>
            /\ req'[r].pc = "REJECTED"
            /\ req'[r].validation.error = "not_exist"]_vars

\* -------------------------------------------------------------------- C16
\* the body of task r lacks the payment reference, the order reference, the
\* claimed amount or a non-empty line list
LacksRequired(r) ==
  \/ req[r].paymentKey = ""
  \/ req[r].orderId = ""
  \/ req[r].amount = undefined
  \/ Len(req[r].items) = 0

\* C16: a confirmation request lacking the payment reference, the order
\* reference, the claimed amount or a non-empty line list ends REJECTED with
\* a 400 response, without the validator having run, without a provider call
\* and without an order row.
C16_MissingInputRejectedEarly ==
  \A r \in Reqs :
    (req[r].pc # "idle" /\ LacksRequired(r)) =>
       /\ req[r].pc = "REJECTED"
       /\ req[r].res.status = 400
       /\ req[r].hist = <<"RECEIVED", "REJECTED">>
       /\ req[r].validation = NoValidation
       /\ req[r].tossResult = NoToss
       /\ CallsBy(r) = {}
       /\ OrdersBy(r) = {}

\* one task rejected for its missing amount (order reference and lines
\* present), the other for its empty line list (references and amount present)
C16_Witness ==
  \E r1, r2 \in Reqs :
    /\ req[r1].pc = "REJECTED" /\ req[r2].pc = "REJECTED"
    /\ req[r1].amount = undefined /\ req[r1].paymentKey # ""
    /\ req[r1].orderId # "" /\ Len(req[r1].items) > 0
    /\ req[r1].res = MissingFieldsResponse
    /\ Len(req[r2].items) = 0 /\ req[r2].amount # undefined
    /\ req[r2].paymentKey # "" /\ req[r2].orderId # ""
    /\ req[r2].res = MissingItemsResponse

\* -------------------------------------------------------------------- C17
\* C17: validating the same request twice yields the same result (the same
\* computed total, verdict and reason), and the validations leave the cache
\* and all other state as they were.
C17_RepeatedValidationAgrees ==
  (vRepeat # NoValidation) =>
     /\ vRepeat = vResult
     /\ BOOKS_MAP_CACHE = ActiveRows(books)
     /\ books \in VTables
     /\ req = [r \in Reqs |-> IdleReq]
     /\ orders = <<>> /\ tossCalls = {}

\* a valid two-line request validated twice
C17_Witness ==
  /\ vRepeat # NoValidation
  /\ vRepeat.valid
  /\ Len(vItems) = 2
  /\ vRepeat.calculatedTotal = vTotal

\* -------------------------------------------------------------------- C18
\* C18: every persisted order's user_id is the authenticated identity of the
\* caller whose request inserted it, whatever userId the request body
\* carried; and the answer of GET /api/orders for a user lists only orders
\* whose row belongs to that user, newest first.
C18_OwnerIsAuthenticatedCaller ==
  /\ \A i \in 1..Len(orders) : orders[i].user_id = UserOf(orders[i].by)
  /\ \A j \in 1..Len(listing.orders) :
       \E i \in 1..Len(orders) :
         /\ orders[i].id = listing.orders[j].id
         /\ orders[i].user_id = listing.user
         /\ UserOf(orders[i].by) = listing.user
  /\ \A j, k \in 1..Len(listing.orders) :
       j < k => listing.orders[j].id > listing.orders[k].id

\* user 1's request carried userId 2 in its body and its order is stored;
\* user 2, who also has an order, then listed their orders and got one row
C18_Witness ==
  \E i, k \in 1..Len(orders) :
    /\ UserOf(orders[i].by) = 1
    /\ req[orders[i].by].userId = 2
    /\ UserOf(orders[k].by) = 2
    /\ listing.user = 2
    /\ Len(listing.orders) = 1
    /\ listing.orders[1].id = orders[k].id

\* -------------------------------------------------------------------- C19
\* C19: in every reachable state, every persisted order's status is one of
\* READY, DONE, SHIPPING, DELIVERED, CANCELED, right after the insert (with
\* the status the provider returned) and after any administrator change.
C19_StatusInEnumeration ==
  \A i \in 1..Len(orders) :
    orders[i].status \in {"READY", "DONE", "SHIPPING", "DELIVERED", "CANCELED"}

\* -------------------------------------------------------------------- C20
\* the order row with internal id `id`, if any
HasOrder(tbl, id) == \E i \in 1..Len(tbl) : tbl[i].id = id

\* C20: an administrator status change with a new status in {READY, DONE,
\* SHIPPING, DELIVERED, CANCELED} succeeds for an existing order whatever its
\* current status, setting exactly that order's status; it answers 400 and
\* changes no order when the new status is missing or outside the set; and
\* it answers 404 and changes no order when the id is unknown (and the status
\* is acceptable).
C20_StatusChange ==
  [][\A id \in PatchIds, st \in PatchStatuses :
       PatchOrderStatus(id, st) =>
         IF st \notin {"READY", "DONE", "SHIPPING", "DELIVERED", "CANCELED"}
         THEN patchRes'.http = 400 /\ orders' = orders
         ELSE IF ~HasOrder(orders, id)
         THEN patchRes'.http = 404 /\ orders' = orders
         ELSE /\ patchRes'.http = 200
              /\ Len(orders') = Len(orders)
              /\ \A i \in 1..Len(orders) :
                   orders'[i] = IF orders[i].id = id
                                THEN [orders[i] EXCEPT !.status = st]
                                ELSE orders[i]]_vars

\* an order (inserted as DONE or WAITING_FOR_DEPOSIT) has been set back to
\* READY by a status change answered 200, the other order being untouched
C20_Witness ==
  /\ patchRes.http = 200
  /\ patchRes.status = "READY"
  /\ \E i, k \in 1..Len(orders) :
       /\ orders[i].id = patchRes.id
       /\ orders[i].status = "READY"
       /\ i # k
       /\ orders[k].status = "WAITING_FOR_DEPOSIT"

\* -------------------------------------------------------------------- C21
\* an order row without its status
Frozen(row) == [row EXCEPT !.status = ""]

\* C21: no step of the program (confirmation, product create / update /
\* deactivation, seeding, status change) removes an order row, and no step
\* changes any field of an existing row other than its status: internal id,
\* owner, order reference, payment reference, total amount and item snapshot
\* stay as inserted.
C21_OrdersAppendOnly ==
  [][ /\ Len(orders') >= Len(orders)
      /\ \A i \in 1..Len(orders) : Frozen(orders'[i]) = Frozen(orders[i])
    ]_vars

\* two orders are stored, one has had its status changed, and the catalog
\* has since been replaced by a seeding (book 1 no longer costs the 15000 of
\* the order's item snapshot)
C21_Witness ==
  /\ Len(orders) = 2
  /\ \E i \in 1..2 : orders[i].status = "READY"
  /\ orders[1].items[1].price = 15000
  /\ orders[1].total_amount = 18000
  /\ books = SeedBooks(10)
  /\ BOOKS_MAP_CACHE = ActiveRows(books)

\* ---------------------------------------------------------------- C22
\* the answer authenticateToken gives to the token of a refused request
Unauthorized(d) ==
  /\ d.http = 401
  /\ d.error = IF d.token = NoToken THEN "login_required" ELSE "invalid_token"

\* C22 as stated: every request a protected endpoint (/api/me, /api/orders,
\* /api/payments/confirm) refuses is answered 401, "login required" when it
\* carried no token and "invalid token" when it carried one that does not
\* verify.
C22_RefusedMeansUnauthorized ==
  denied # NoDenial => Unauthorized(denied)

\* C22, amended: a protected handler runs only for a request whose token
\* verifies: a confirmation task leaves idle, the provider is called, an order
\* list or a profile is answered only with a signed token.  A request that is
\* refused changes no task, order, provider call, listing or profile; it is
\* answered 401 "login required" without a token and 401 "invalid token" with
\* one that does not verify, except that /api/payments/confirm answers 429
\* to any request beyond the payment limit of the window, whatever its token.
C22_ProtectedNeedsValidToken ==
  [][ /\ \A r \in Reqs :
           req[r].pc = "idle" /\ req'[r].pc # "idle"
             => ~VerifyError(req'[r].token) /\ req'[r].token # NoToken
      /\ tossCalls' # tossCalls
           => \E r \in Reqs : /\ req[r].pc = "idle"
                              /\ req'[r].token = SignedToken(UserOf(r))
      /\ listing' # listing => listing'.token = SignedToken(listing'.user)
      /\ meRes' # meRes => meRes'.token.kind = "signed"
      /\ denied' # denied
           => /\ UNCHANGED <<req, orders, orders_id_seq, tossCalls, listing,
                             meRes, books, BOOKS_MAP_CACHE>>
              /\ \/ Unauthorized(denied')
                 \/ /\ denied' = TooMany("confirm", denied'.token)
                    /\ limiter'["payment"] > PaymentMax
  ]_vars

\* /api/payments/confirm refused a request with a forged token while a
\* request with a signed token is being handled
C22_Witness ==
  /\ denied.endpoint = "confirm"
  /\ denied.http = 401
  /\ denied.token.kind = "forged"
  /\ \E r \in Reqs : req[r].pc # "idle"

\* ---------------------------------------------------------------- C23
\* the limiter's answer to a login request, whatever credentials it carried
LoginRefused ==
  /\ login.http = 429
  /\ login.error = "too_many_login_attempts"
  /\ login.token = NoToken
  /\ ~login.checked

\* C23: a login request counted beyond the 5th of the window is answered
\* with the "too many login attempts" error without its credentials being
\* looked up and changes no user; while the count of the window is beyond 5
\* the last answer is that error, so no request of the window was admitted
\* after it; and the first request after the window has passed is admitted
\* (it is not answered with that error).
C23_LoginLimited ==
  [][ /\ limiter'["login"] > LoginMax => LoginRefused' /\ UNCHANGED app_users
      /\ limiter["login"] = 0 /\ limiter'["login"] = 1
           => /\ login'.http # 429
              /\ login'.checked
                   = (login'.email # "" /\ login'.password # NoPassword)
  ]_vars

\* the window's count is beyond 5 and the request refused last carried the
\* right credentials of a registered user
C23_Witness ==
  /\ limiter["login"] > LoginMax
  /\ login.http = 429
  /\ login.email = "a@shop"
  /\ login.password = StrongPassword

\* ---------------------------------------------------------------- C24
\* the last login request carried the email of a registered user and the
\* password whose hash is stored for them
ValidCredentials ==
  \E i \in 1..Len(app_users) :
    /\ app_users[i].email = login.email
    /\ app_users[i].password = Hash(login.password)

\* C24 as stated: every login request of one client with the valid
\* credentials of an existing user is answered 200 with a token, however
\* many requests preceded it.
C24_ValidLoginAlwaysSucceeds ==
  login.http # 0 /\ ValidCredentials
    => login.http = 200 /\ login.token.kind = "signed"

\* C24, amended: a login request with the valid credentials of an existing
\* user that is among the first 5 login requests of its client's window is
\* answered 200 with a token signed for that user.
C24_ValidLoginSucceedsWithinLimit ==
  [][ /\ limiter'["login"] = limiter["login"] + 1
      /\ limiter'["login"] <= LoginMax
      /\ ValidCredentials'
      => /\ login'.http = 200
         /\ \E i \in 1..Len(app_users) :
              /\ app_users[i].email = login'.email
              /\ login'.token = SignedToken(app_users[i].id)
  ]_vars

\* the fifth request of the window, with valid credentials, succeeded
C24_Witness ==
  /\ limiter["login"] = LoginMax
  /\ ValidCredentials
  /\ login.http = 200
  /\ login.token = SignedToken(2)

\* ---------------------------------------------------------------- C25
\* C25: a registration request whose email belongs to a user when the
\* request is answered, and which did not itself create that user, is
\* answered "already registered" (409), also when two registrations for
\* the same email are in flight at once; no email ever has two users.
C25_DuplicateAnsweredAlreadyRegistered ==
  /\ \A i, j \in 1..Len(app_users) :
       app_users[i].email = app_users[j].email => i = j
  /\ \A g \in Regs :
       /\ reg[g].pc = "done"
       /\ reg[g].res.http \notin {400, 201}
       => reg[g].res = [http |-> 409, error |-> "already_registered"]

\* ---------------------------------------------------------------- C26
\* at least 8 characters with an uppercase letter, a lowercase letter, a
\* digit and a special character
MeetsPolicy(password) ==
  /\ password.length >= 8
  /\ password.hasUpperCase
  /\ password.hasLowerCase
  /\ password.hasNumber
  /\ password.hasSpecialChar

\* C26: a registration creates a user only if its password has at least 8
\* characters with an uppercase letter, a lowercase letter, a digit and a
\* special character; with any other password it is answered 400 and no
\* user is created.
C26_WeakPasswordRejected ==
  /\ \A g \in Regs :
       reg[g].pc # "idle" /\ ~MeetsPolicy(reg[g].password)
         => reg[g].pc = "done" /\ reg[g].res.http = 400
  /\ \A i \in 1..Len(app_users) :
       \E password \in RegPasswords :
         MeetsPolicy(password) /\ app_users[i].password = Hash(password)

\* ---------------------------------------------------------------- C27
\* C27: every call of the provider carries exactly the paymentKey, orderId
\* and amount of the request it was made for, the validation of that request
\* accepted, and the amount sent is the total the validator computed; the
\* provider is never sent an amount the validator did not accept.
C27_ProviderSentValidatedAmount ==
  \A call \in tossCalls :
    LET request == req[call.by] IN
    /\ call.paymentKey = request.paymentKey
    /\ call.orderId = request.orderId
    /\ call.amount = request.amount
    /\ request.validation.valid
    /\ call.amount = request.validation.calculatedTotal
    /\ request.validation
         = ValidateFrom(request.items, 1, 0, call.amount, request.cacheAt)

\* both tasks called the provider, one of them for the total at the price
\* an administrator had set in between
C27_Witness ==
  /\ Cardinality(tossCalls) = 2
  /\ \E call \in tossCalls : call.amount = 18000
  /\ \E call \in tossCalls : call.amount = 32999

\* ---------------------------------------------------------------- C28
\* C28: the validation of a request prices all its lines against one
\* snapshot of the cache, the cache as it is when the request is validated:
\* no refresh takes effect during the validation, and the request is
\* accepted exactly when every line's product and price are those of that
\* snapshot and the claimed amount is the total at that snapshot's prices,
\* whatever catalog writes and refreshes are under way.
C28_ValidationReadsOneSnapshot ==
  [][ \A r \in Reqs :
        req[r].pc = "idle" /\ req'[r].pc # "idle" /\ Len(req'[r].hist) >= 2
        => /\ BOOKS_MAP_CACHE' = BOOKS_MAP_CACHE
           /\ req'[r].cacheAt = BOOKS_MAP_CACHE
           /\ req'[r].validation.valid
                <=> /\ AllClean(req'[r].items, BOOKS_MAP_CACHE)
                    /\ req'[r].amount
                         = MasterTotal(req'[r].items, BOOKS_MAP_CACHE)
  ]_vars

\* a two-line request was accepted at the cache's prices while the table
\* already held another price for one of its products
C28_Witness ==
  /\ req[1].pc = "PROVIDER_CONFIRMING"
  /\ Len(req[1].items) = 2
  /\ req[1].cacheAt = BOOKS_MAP_CACHE
  /\ \E b \in {1, 2} : books[b].price # BOOKS_MAP_CACHE[b].price
  /\ \E a \in Admins : admin[a].pc # "idle"

\* ---------------------------------------------------------------- C29
\* C29: when a catalog request (create, update, deactivate, seeding) has
\* answered its caller with an error (400, 404 or 500), the product table
\* and the cache are exactly what they were when the request arrived.
C29_FailedMutationChangesNothing ==
  \A a \in SerialAdmins :
    admin[a].pc = "idle" /\ admin[a].status \in {400, 404, 500}
      => <<books, BOOKS_MAP_CACHE>> = admin[a].before

\* ---------------------------------------------------------------- C30
\* C30: the server is listening only after initDB has completed, the
\* initial load of the cache included; a request is taken up only by a
\* listening server, so every validation reads a cache that a refresh has
\* loaded; and once initDB has failed the server never listens.
C30_ListensOnlyAfterInitDB ==
  [][ /\ server'.pc = "listening"
         => /\ server.pc \in {"ready", "listening"}
            /\ server'.loaded
            /\ BOOKS_MAP_CACHE' = ActiveRows(books')
      /\ server.pc = "failed" => server'.pc = "failed"
      /\ \A r \in Reqs :
           req'[r] # req[r]
             => /\ server.pc = "listening"
                /\ server.loaded
                /\ req'[r].cacheAt = ActiveRows(books)
  ]_vars

\* after a start with products in the table, a request was validated and
\* accepted against the loaded cache
C30_Witness ==
  /\ server.pc = "listening"
  /\ server.loaded
  /\ \E r \in Reqs :
       /\ req[r].pc = "PROVIDER_CONFIRMING"
       /\ req[r].cacheAt = ActiveRows(InitBooks)

====
